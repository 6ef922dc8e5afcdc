--------------------------- MODULE AjaxFormProofs ---------------------------
(***************************************************************************)
(* What holds of AjaxForm for every set of pages, elements and wrappers    *)
(* and for every number of requests.                                       *)
(***************************************************************************)
EXTENDS AjaxForm, TLAPS

\* Requests are numbered in the order they are made, and each has one call,
\* one job and one answer at most; an answer has no job left, and a call.
RequestsOk ==
  /\ \A c \in calls : c.step[1] = c.object.page /\ c.step[2] <= sends
  /\ \A c, d \in calls : c.step = d.step => c = d
  /\ \A j \in jobs : j.step[2] <= sends
  /\ \A j, k \in jobs : j.step = k.step => j = k
  /\ \A a \in answers : \E c \in calls : c.step = a.step
  /\ \A a \in answers, j \in jobs : a.step # j.step

\* An element that waits is that of the page or an earlier one.
ObjectsOk == \A o \in ajaxing : o.nth <= made[o.page][o.element]

\* A page holds a build id of its own, or one that the page cache gave to
\* several pages: that one is only read.
OwnId(p, i) == i[1] = p \/ forms[i].immutable

\* A cached form has the steps and the token of its page; that of a cached
\* page has none.
EntriesOk ==
  \A i \in BuildIds :
    /\ forms[i].immutable => /\ i[2] = 0
                             /\ forms[i].status \in {"stored", "expired"}
                             /\ forms[i].steps = {} /\ forms[i].token = {}
    /\ \A s \in forms[i].steps : s[1] = i[1]
    /\ forms[i].status = "stored" /\ ~forms[i].immutable /\ i[1] \in steady =>
         forms[i].token = Token(i[1], session[i[1]])

\* A form is missing only while the request that deleted it has not ended.
ClearedOk ==
  \A i \in BuildIds : forms[i].status = "cleared" =>
    \E j \in jobs : j.at = "cleared" /\ j.id = i

PagesOk ==
  \A p \in Pages :
    /\ OwnId(p, buildId[p])
    /\ forms[buildId[p]].status # "none"
    /\ p \in steady /\ forms[buildId[p]].immutable => Token(p, session[p]) = {}
    /\ \A w \in Wrappers : \A s \in shown[p][w] : s[1] = p

JobsOk ==
  /\ \A j \in jobs :
       /\ OwnId(j.step[1], j.old)
       /\ forms[j.old].status # "none"
       /\ j.step[1] \in steady => j.token = Token(j.step[1], session[j.step[1]])
       /\ j.at # "posted" =>
            /\ ~forms[j.id].immutable
            /\ j.id[1] = j.step[1]
            /\ \A s \in j.steps : s[1] = j.step[1]
  /\ \A a \in answers :
       /\ forms[a.id].status # "none" /\ ~forms[a.id].immutable
       /\ a.id[1] = a.step[1]
       /\ \A s \in a.steps : s[1] = a.step[1]

\* A page whose requests never overlapped has one request at most, which was
\* made from the form it holds and keeps what it shows.
Covers(steps, p) == \A w \in Wrappers : shown[p][w] \subseteq steps

SoloOk ==
  \A p \in apart :
    /\ \A c, d \in calls : c.object.page = p /\ d.object.page = p => c = d
    /\ \A j, k \in jobs : j.step[1] = p /\ k.step[1] = p => j = k
    /\ \A c \in calls, j \in jobs :
         c.object.page = p /\ j.step[1] = p => c.step = j.step
    /\ \A j \in jobs : j.step[1] = p =>
         /\ j.old = buildId[p]
         /\ j.at # "posted" => Covers(j.steps, p)
    /\ \A a \in answers : a.step[1] = p =>
         /\ a.old = buildId[p]
         /\ Covers(a.steps, p)
         /\ forms[a.id].status # "stored" \/ a.steps \subseteq forms[a.id].steps

Inv ==
  /\ TypeOK
  /\ WaitingIsShown /\ BehaviorsReturn /\ ObjectsOk
  /\ RequestsOk /\ EntriesOk /\ ClearedOk /\ PagesOk /\ JobsOk
  /\ SoloOk /\ ShownIsCached

-----------------------------------------------------------------------------
\* The constants of a form, as types.
LEMMA Ids ==
  /\ \A p \in Pages : <<p, 0>> \in BuildIds
  /\ Steps \subseteq BuildIds
  /\ \A s \in Steps : s[1] \in Pages /\ s[2] \in Nat /\ s[2] # 0
  /\ \A i \in BuildIds : i[1] \in Pages /\ i[2] \in Nat
BY AjaxFormAssumption DEF Steps, BuildIds

\* The token of a session is one of Tokens.
LEMMA TokenType ==
  ASSUME NEW p \in Pages, NEW n \in 0 .. MaxSessions
  PROVE  Token(p, n) \in Tokens
BY DEF Token, Tokens

\* The anonymous have no token.
LEMMA NoToken == {} \in Tokens /\ {} \in SUBSET Steps
BY DEF Tokens

\* What the records of a request hold.
LEMMA Records ==
  ASSUME TypeOK
  PROVE  /\ \A c \in calls : /\ c.step \in Steps /\ c.object \in Objects
                             /\ c.object.page \in Pages
                             /\ c.object.element \in Elements
         /\ \A j \in jobs : /\ j.step \in Steps /\ j.old \in BuildIds
                            /\ j.id \in BuildIds /\ j.steps \subseteq Steps
                            /\ j.token \in Tokens
                            /\ j.at \in {"posted", "loaded", "cleared"}
         /\ \A a \in answers : /\ a.step \in Steps /\ a.old \in BuildIds
                               /\ a.id \in BuildIds /\ a.steps \subseteq Steps
         /\ \A i \in BuildIds : /\ forms[i].steps \subseteq Steps
                                /\ forms[i].token \in Tokens
                                /\ forms[i].immutable \in BOOLEAN
                                /\ forms[i].status \in
                                     {"none", "stored", "cleared", "lost",
                                      "expired"}
         /\ \A p \in Pages : /\ buildId[p] \in BuildIds
                             /\ session[p] \in 0 .. MaxSessions
                             /\ Token(p, session[p]) \in Tokens
BY TokenType DEF TypeOK, Calls, Objects, Jobs, Answers, Entries

LEMMA InitInv == Init => Inv
<1> SUFFICES ASSUME Init PROVE Inv
  OBVIOUS
<1> DEFINE Served(common, first, p) ==
             IF p \in common THEN <<first, 0>> ELSE <<p, 0>>
<1>1. PICK common \in SUBSET {p \in Pages : session[p] = 0}, first \in Pages :
        /\ common # {} => first \in common
        /\ buildId = [p \in Pages |-> Served(common, first, p)]
        /\ forms = [i \in BuildIds |->
             IF \E p \in Pages : i = Served(common, first, p)
             THEN Entry("stored", i[1] \in common,
                        Token(i[1], session[i[1]]), {})
             ELSE Entry("none", FALSE, {}, {})]
  BY DEF Init
<1>2. /\ session \in [Pages -> {0, 1}] /\ pageCache \in BOOLEAN
      /\ jobs = {} /\ answers = {} /\ calls = {}
      /\ made = [p \in Pages |-> [e \in Elements |-> 0]]
      /\ ajaxing = {} /\ progress = {} /\ attached = Pages
      /\ shown = [p \in Pages |-> [w \in Wrappers |-> {}]]
      /\ sends = 0 /\ apart = Pages /\ steady = Pages
  BY DEF Init
<1>3. session \in [Pages -> 0 .. MaxSessions]
  BY <1>2, AjaxFormAssumption
<1>4. \A p \in Pages : /\ Served(common, first, p) \in BuildIds
                       /\ Served(common, first, p)[2] = 0
                       /\ Served(common, first, p)[1] =
                            IF p \in common THEN first ELSE p
  BY Ids
<1>5. \A i \in BuildIds : i[1] \in Pages /\ Token(i[1], session[i[1]]) \in Tokens
  BY <1>3, Ids, TokenType
<1>6. \A p \in Pages : session[p] = 0 => Token(p, session[p]) = {}
  BY DEF Token
<1> HIDE DEF Served
<1>7. ASSUME NEW i \in BuildIds
      PROVE  /\ forms[i] \in Entries /\ forms[i].steps = {}
             /\ forms[i].status \in {"none", "stored"}
             /\ \A p \in Pages : i = Served(common, first, p) =>
                  forms[i].status = "stored"
             /\ forms[i].immutable <=>
                  (\E p \in Pages : i = Served(common, first, p)) /\ i[1] \in common
             /\ forms[i].status = "stored" =>
                  forms[i].token = Token(i[1], session[i[1]])
  <2>1. CASE \E p \in Pages : i = Served(common, first, p)
    <3>1. forms[i] = Entry("stored", i[1] \in common,
                           Token(i[1], session[i[1]]), {})
      BY <1>1, <2>1
    <3>3. forms[i] = [status |-> "stored", immutable |-> i[1] \in common,
                      token |-> Token(i[1], session[i[1]]), steps |-> {}]
      BY <3>1 DEF Entry
    <3>4. CASE i[1] \in common
      <4>1. forms[i] = [status |-> "stored", immutable |-> TRUE,
                        token |-> Token(i[1], session[i[1]]), steps |-> {}]
        BY <3>3, <3>4
      <4>2. forms[i] \in Entries
        BY <1>5, <4>1 DEF Entries
      <4> QED
        BY <2>1, <3>4, <4>1, <4>2
    <3>5. CASE i[1] \notin common
      <4>3. (i[1] \in common) = FALSE
        BY <3>5
      <4>1. forms[i] = [status |-> "stored", immutable |-> FALSE,
                        token |-> Token(i[1], session[i[1]]), steps |-> {}]
        BY <3>3, <4>3
      <4>2. forms[i] \in Entries
        BY <1>5, <4>1 DEF Entries
      <4> QED
        BY <2>1, <3>5, <4>1, <4>2
    <3> QED
      BY <3>4, <3>5
  <2>2. CASE ~ \E p \in Pages : i = Served(common, first, p)
    <3>1. forms[i] = Entry("none", FALSE, {}, {})
      BY <1>1, <2>2
    <3> QED
      BY <2>2, <3>1, NoToken DEF Entry, Entries
  <2> QED
    BY <2>1, <2>2
<1>8. TypeOK
  <2>1. forms \in [BuildIds -> Entries]
    BY <1>1, <1>7
  <2>2. buildId \in [Pages -> BuildIds] /\ sends \in 0 .. MaxSends
    BY <1>1, <1>2, <1>4, AjaxFormAssumption
  <2> QED
    BY <1>2, <1>3, <2>1, <2>2 DEF TypeOK
<1>9. /\ WaitingIsShown /\ BehaviorsReturn /\ RequestsOk /\ JobsOk /\ SoloOk
      /\ ShownIsCached /\ ObjectsOk
  BY <1>2 DEF ObjectsOk, WaitingIsShown, BehaviorsReturn, RequestsOk, JobsOk, SoloOk,
              ShownIsCached
<1>10. EntriesOk
  <2> SUFFICES ASSUME NEW i \in BuildIds, forms[i].immutable
               PROVE  i[2] = 0 /\ forms[i].status = "stored" /\ forms[i].token = {}
    BY <1>7 DEF EntriesOk
  <2>1. PICK p \in Pages : i = Served(common, first, p)
    BY <1>7
  <2>2. i[1] \in common
    BY <1>7
  <2> QED
    BY <1>4, <1>6, <1>7, <2>1, <2>2
<1>11. ClearedOk
  BY <1>7 DEF ClearedOk
<1>12. PagesOk
  <2> SUFFICES ASSUME NEW p \in Pages
               PROVE  /\ OwnId(p, buildId[p])
                      /\ forms[buildId[p]].status # "none"
                      /\ forms[buildId[p]].immutable => Token(p, session[p]) = {}
    BY <1>2 DEF PagesOk
  <2>1. buildId[p] = Served(common, first, p) /\ buildId[p] \in BuildIds
    BY <1>1, <1>4
  <2>2. CASE p \in common
    <3>1. first \in common /\ Token(p, session[p]) = {}
      BY <1>1, <1>6, <2>2
    <3>2. buildId[p][1] = first
      BY <1>4, <2>1, <2>2
    <3>3. forms[buildId[p]].immutable /\ forms[buildId[p]].status = "stored"
      BY <1>7, <2>1, <3>1, <3>2
    <3> QED
      BY <3>1, <3>3 DEF OwnId
  <2>3. CASE p \notin common
    BY <1>4, <1>7, <2>1, <2>3 DEF OwnId
  <2> QED
    BY <2>2, <2>3
<1> QED
  BY <1>8, <1>9, <1>10, <1>11, <1>12 DEF Inv

-----------------------------------------------------------------------------
\* A request is sent.
LEMMA EventResponseInv ==
  ASSUME Inv, NEW p \in Pages, NEW e \in Elements, EventResponse(p, e)
  PROVE  Inv'
<1> DEFINE o == Current(p, e)
           step == <<p, sends + 1>>
           call == [object |-> o, step |-> step]
           token == Token(p, session[p])
           job == Posted(step, buildId[p], token)
<1>0. /\ o \notin ajaxing /\ sends' = sends + 1
      /\ attached' = attached \ {p}
      /\ ajaxing' = ajaxing \cup {o}
      /\ progress' = progress \cup {o}
      /\ calls' = calls \cup {call} /\ jobs' = jobs \cup {job}
      /\ apart' = IF Waiting(p) \/ Working(p) THEN apart \ {p} ELSE apart
      /\ UNCHANGED <<pageCache, forms, answers, made, buildId, shown, session,
                     steady>>
  BY DEF EventResponse, Sends, Current, visits
<1>1. o \in Objects /\ o.page = p
  BY DEF Inv, TypeOK, Current, Objects
<1>2. step \in Steps /\ sends \in Nat /\ sends' \in 0 .. MaxSends
  BY AjaxFormAssumption DEF EventResponse, Inv, TypeOK, Steps
<1>3. call \in Calls /\ call.object = o /\ call.step = step
  BY <1>1, <1>2 DEF Calls
<1>4. /\ job \in Jobs /\ job.step = step /\ job.at = "posted"
      /\ job.old = buildId[p] /\ job.token = token
  BY <1>2, Ids, Records DEF Posted, Jobs, Inv, TypeOK
<1>5. step[1] = p /\ step[2] = sends + 1
  OBVIOUS
<1>18. o = Current(p, e)
  OBVIOUS
<1> HIDE DEF o, step, call, job, token
<1>6. TypeOK'
  BY <1>0, <1>1, <1>2, <1>3, <1>4 DEF Inv, TypeOK
<1>7. WaitingIsShown'
  <2>1. Current(p, e).page = p /\ Current(p, e).element = e
    BY DEF Current
  <2>2. \A q, f : Current(q, f)' = Current(q, f)
    BY <1>0 DEF Current
  <2>3. progress' = {x \in ajaxing' : x = Current(x.page, x.element)'}
    BY <1>0, <1>18, <2>1, <2>2 DEF Inv, WaitingIsShown
  <2> QED
    BY <1>0, <1>3, <2>3 DEF Inv, WaitingIsShown
<1>8. BehaviorsReturn' /\ ObjectsOk'
  <2>1. o.nth <= made[o.page][o.element]
    BY <1>18 DEF Inv, TypeOK, Current
  <2> QED
    BY <1>0, <1>1, <1>3, <2>1 DEF Inv, BehaviorsReturn, Waiting, ObjectsOk
<1>9. \A c \in calls : c.step # step
  BY <1>2, <1>5, Ids, Records DEF Inv, RequestsOk
<1>10. \A j \in jobs : j.step # step
  BY <1>2, <1>5, Ids, Records DEF Inv, RequestsOk
<1>11. \A a \in answers : a.step # step
  BY <1>9 DEF Inv, RequestsOk
<1>12. RequestsOk'
  <2>1. \A c \in calls' : c.step[1] = c.object.page /\ c.step[2] <= sends'
    BY <1>0, <1>1, <1>2, <1>3, <1>5, Ids, Records DEF Inv, RequestsOk
  <2>2. \A j \in jobs' : j.step[2] <= sends'
    BY <1>0, <1>2, <1>4, <1>5, Ids, Records DEF Inv, RequestsOk
  <2>3. \A c, d \in calls' : c.step = d.step => c = d
    BY <1>0, <1>3, <1>9 DEF Inv, RequestsOk
  <2>4. \A j, k \in jobs' : j.step = k.step => j = k
    BY <1>0, <1>4, <1>10 DEF Inv, RequestsOk
  <2>5. /\ \A a \in answers' : \E c \in calls' : c.step = a.step
        /\ \A a \in answers', j \in jobs' : a.step # j.step
    BY <1>0, <1>4, <1>11 DEF Inv, RequestsOk
  <2> QED
    BY <2>1, <2>2, <2>3, <2>4, <2>5 DEF RequestsOk
<1>13. EntriesOk' /\ ClearedOk' /\ PagesOk'
  BY <1>0 DEF Inv, EntriesOk, ClearedOk, PagesOk, OwnId
<1>14. JobsOk'
  BY <1>0, <1>4, <1>5 DEF Inv, JobsOk, PagesOk, OwnId, token
<1>15. ASSUME NEW q \in apart'
       PROVE  q \in apart /\ (q = p => ~Waiting(p) /\ ~Working(p))
  BY <1>0
<1>16. SoloOk'
  <2> SUFFICES ASSUME NEW q \in apart'
               PROVE  /\ \A c, d \in calls' : c.object.page = q /\ d.object.page = q => c = d
                      /\ \A j, k \in jobs' : j.step[1] = q /\ k.step[1] = q => j = k
                      /\ \A c \in calls', j \in jobs' :
                           c.object.page = q /\ j.step[1] = q => c.step = j.step
                      /\ \A j \in jobs' : j.step[1] = q =>
                           /\ j.old = buildId'[q]
                           /\ j.at # "posted" => Covers(j.steps, q)'
                      /\ \A a \in answers' : a.step[1] = q =>
                           /\ a.old = buildId'[q]
                           /\ Covers(a.steps, q)'
                           /\ forms'[a.id].status # "stored"
                              \/ a.steps \subseteq forms'[a.id].steps
    BY DEF SoloOk
  <2>1. q \in apart
    BY <1>15
  <2>2. CASE q # p
    BY <1>0, <1>1, <1>3, <1>4, <1>5, <2>1, <2>2 DEF Inv, SoloOk, Covers
  <2>3. CASE q = p
    <3>1. /\ \A c \in calls : c.object.page # p
          /\ \A j \in jobs : j.step[1] # p
      BY <1>15, <2>3 DEF Waiting, Working
    <3>2. \A a \in answers : a.step[1] # p
      BY <3>1 DEF Inv, RequestsOk
    <3> QED
      BY <1>0, <1>1, <1>3, <1>4, <1>5, <2>3, <3>1, <3>2
  <2> QED
    BY <2>2, <2>3
<1>17. ShownIsCached'
  BY <1>0, <1>15 DEF Inv, ShownIsCached
<1> QED
  BY <1>6, <1>7, <1>8, <1>12, <1>13, <1>14, <1>16, <1>17 DEF Inv

\* A request returns, with or without an answer: the part of the invariant
\* that looks neither at the forms nor at the throbbers.
LEMMA ReturnsInv ==
  ASSUME Inv, NEW c \in calls, Returns(c), jobs' = jobs, sends' = sends
  PROVE  /\ BehaviorsReturn' /\ RequestsOk'
         /\ calls' \subseteq Calls /\ answers' \subseteq Answers
         /\ ajaxing' \subseteq Objects /\ attached' \subseteq Pages
         /\ ajaxing' = {d.object : d \in calls'}
         /\ \A d, f \in calls' : d.object = f.object => d = f
<1>1. /\ calls' = calls \ {c}
      /\ answers' = {a \in answers : a.step # c.step}
      /\ ajaxing' = ajaxing \ {c.object}
      /\ attached' = attached \cup {c.object.page}
  BY DEF Returns
<1>2. /\ ajaxing' = {d.object : d \in calls'}
      /\ \A d, f \in calls' : d.object = f.object => d = f
  BY <1>1 DEF Inv, WaitingIsShown
<1>3. BehaviorsReturn'
  BY <1>1 DEF Inv, BehaviorsReturn, Waiting
<1>4. RequestsOk'
  <2>1. \A a \in answers' : \E d \in calls' : d.step = a.step
    BY <1>1 DEF Inv, RequestsOk
  <2> QED
    BY <1>1, <2>1 DEF Inv, RequestsOk
<1>5. c.object.page \in Pages
  BY Records DEF Inv
<1> QED
  BY <1>1, <1>2, <1>3, <1>4, <1>5 DEF Inv, TypeOK

\* A request fails in the browser.
LEMMA ErrorInv ==
  ASSUME Inv, NEW c \in calls, Error(c)
  PROVE  Inv'
<1>1. /\ Returns(c) /\ progress' = progress \ {c.object}
      /\ UNCHANGED <<pageCache, forms, jobs, made, buildId, shown, session,
                     steady, sends, apart>>
  BY DEF Error, visits
<1>2. calls' \subseteq calls /\ answers' \subseteq answers
  BY <1>1 DEF Returns
<1>3. TypeOK' /\ BehaviorsReturn' /\ RequestsOk'
  BY <1>1, ReturnsInv DEF Inv, TypeOK
<1>4. WaitingIsShown'
  <2>1. ajaxing' = ajaxing \ {c.object}
    BY <1>1 DEF Returns
  <2>2. \A p, e : Current(p, e)' = Current(p, e)
    BY <1>1 DEF Current
  <2> QED
    BY <1>1, <2>1, <2>2, ReturnsInv DEF Inv, WaitingIsShown
<1>7. ObjectsOk'
  BY <1>1 DEF Inv, ObjectsOk, Returns
<1>5. EntriesOk' /\ ClearedOk' /\ PagesOk' /\ ShownIsCached'
  BY <1>1 DEF Inv, EntriesOk, ClearedOk, PagesOk, OwnId, ShownIsCached
<1>8. JobsOk'
  BY <1>1, <1>2 DEF Inv, JobsOk, OwnId
<1>6. SoloOk'
  BY <1>1, <1>2 DEF Inv, SoloOk, Covers
<1> QED
  BY <1>3, <1>4, <1>5, <1>6, <1>7, <1>8 DEF Inv

\* A request is answered.
LEMMA SuccessInv ==
  ASSUME Inv, NEW c \in calls, NEW a \in answers, Success(c, a)
  PROVE  Inv'
<1> DEFINE p == c.object.page
           v == Wrapper[c.object.element]
<1>1. /\ a.step = c.step /\ Returns(c)
      /\ UNCHANGED <<pageCache, forms, jobs, session, steady, sends, apart>>
      /\ buildId' = [buildId EXCEPT ![p] = IF @ = a.old THEN a.id ELSE @]
      /\ \/ /\ Insert(p, v, a)
            /\ progress' = progress \ ({c.object} \cup Beside(p, v))
         \/ /\ progress' = progress \ {c.object}
            /\ UNCHANGED <<shown, made>>
  BY DEF Success, UpdateBuildId, visits
<1>2. calls' = calls \ {c} /\ answers' = {b \in answers : b.step # c.step}
  BY <1>1 DEF Returns
<1>3. /\ p \in Pages /\ v \in Wrappers /\ a.id \in BuildIds
      /\ a.steps \subseteq Steps /\ a.step[1] = p
  BY <1>1, Records, AjaxFormAssumption DEF Inv, RequestsOk
<1>4. /\ shown \in [Pages -> [Wrappers -> SUBSET Steps]]
      /\ made \in [Pages -> [Elements -> Nat]]
      /\ buildId \in [Pages -> BuildIds]
  BY DEF Inv, TypeOK
<1> HIDE DEF p, v
<1>5. /\ shown' \in [Pages -> [Wrappers -> SUBSET Steps]]
      /\ \A q \in Pages, w \in Wrappers :
           shown'[q][w] = shown[q][w] \/ (q = p /\ shown'[q][w] = a.steps)
  <2>1. CASE Insert(p, v, a)
    <3>1. shown' = [shown EXCEPT ![p][v] = a.steps]
      BY <2>1 DEF Insert
    <3> QED
      BY <1>3, <1>4, <3>1
  <2>2. CASE UNCHANGED <<shown, made>>
    BY <1>4, <2>2
  <2> QED
    BY <1>1, <2>1, <2>2
<1>6. made' \in [Pages -> [Elements -> Nat]]
  <2>1. CASE Insert(p, v, a)
    <3>1. [e \in Elements |-> IF e \in Holds[v] THEN made[p][e] + 1
                              ELSE made[p][e]] \in [Elements -> Nat]
      BY <1>3, <1>4
    <3>2. made' = [made EXCEPT ![p] =
                     [e \in Elements |-> IF e \in Holds[v] THEN made[p][e] + 1
                                         ELSE made[p][e]]]
      BY <2>1 DEF Insert
    <3> QED
      BY <1>3, <1>4, <3>1, <3>2
  <2>2. CASE UNCHANGED <<shown, made>>
    BY <1>4, <2>2
  <2> QED
    BY <1>1, <2>1, <2>2
<1>7. /\ buildId' \in [Pages -> BuildIds]
      /\ \A q \in Pages : buildId'[q] = IF q = p /\ buildId[p] = a.old
                                        THEN a.id ELSE buildId[q]
  BY <1>1, <1>3, <1>4
<1>8. TypeOK' /\ BehaviorsReturn' /\ RequestsOk'
  <2>1. progress' \subseteq progress
    BY <1>1
  <2> QED
    BY <1>1, <1>5, <1>6, <1>7, <2>1, ReturnsInv DEF Inv, TypeOK
<1>15. WaitingIsShown'
  <2>1. ajaxing' = ajaxing \ {c.object}
    BY <1>1 DEF Returns
  <2>2. \A o \in ajaxing : o \in Objects /\ o.page \in Pages /\ o.element \in Elements
    BY DEF Inv, TypeOK, Objects
  <2>3. progress' = {o \in ajaxing' : o = Current(o.page, o.element)'}
    <3>1. CASE /\ Insert(p, v, a)
               /\ progress' = progress \ ({c.object} \cup Beside(p, v))
      <4>1. ASSUME NEW q \in Pages, NEW e \in Elements
            PROVE  Current(q, e)' =
                     [page |-> q, element |-> e,
                      nth |-> IF q = p /\ e \in Holds[v] THEN made[q][e] + 1
                              ELSE made[q][e]]
        BY <1>3, <1>4, <3>1 DEF Insert, Current
      <4>2. ASSUME NEW o \in ajaxing
            PROVE  o = Current(o.page, o.element)' <=>
                     /\ o = Current(o.page, o.element)
                     /\ ~(o.page = p /\ o.element \in Holds[v])
        <5>1. made[o.page][o.element] \in Nat /\ o.nth \in Nat
          BY <1>4, <2>2 DEF Inv, TypeOK, Objects
        <5>2. o = [page |-> o.page, element |-> o.element, nth |-> o.nth]
          BY <2>2 DEF Objects
        <5>3. Current(o.page, o.element).nth = made[o.page][o.element]
          BY DEF Current
        <5>4. CASE o.page = p /\ o.element \in Holds[v]
          <6>1. Current(o.page, o.element)'.nth = made[o.page][o.element] + 1
            BY <2>2, <4>1, <5>4
          <6>2. ASSUME o = Current(o.page, o.element)'
                PROVE  FALSE
            BY <5>1, <6>1, <6>2 DEF Inv, ObjectsOk
          <6> QED
            BY <5>4, <6>2
        <5>5. CASE ~(o.page = p /\ o.element \in Holds[v])
          BY <2>2, <4>1, <5>5 DEF Current
        <5> QED
          BY <5>4, <5>5
      <4> QED
        BY <2>1, <3>1, <4>2 DEF Inv, WaitingIsShown, Beside
    <3>2. CASE /\ progress' = progress \ {c.object}
               /\ UNCHANGED <<shown, made>>
      <4>1. \A q, e : Current(q, e)' = Current(q, e)
        BY <3>2 DEF Current
      <4> QED
        BY <2>1, <3>2, <4>1 DEF Inv, WaitingIsShown
    <3> QED
      BY <1>1, <3>1, <3>2
  <2> QED
    BY <1>1, <2>3, ReturnsInv DEF WaitingIsShown
<1>17. ObjectsOk'
  <2> SUFFICES ASSUME NEW o \in ajaxing, o \in ajaxing'
               PROVE  o.nth <= made'[o.page][o.element]
    BY <1>1 DEF Returns, ObjectsOk
  <2>1. /\ o.page \in Pages /\ o.element \in Elements /\ o.nth \in Nat
        /\ made[o.page][o.element] \in Nat /\ o.nth <= made[o.page][o.element]
    BY <1>4 DEF Inv, TypeOK, Objects, ObjectsOk
  <2>2. made'[o.page][o.element] \in {made[o.page][o.element],
                                     made[o.page][o.element] + 1}
    <3>1. CASE Insert(p, v, a)
      BY <1>3, <1>4, <2>1, <3>1 DEF Insert
    <3>2. CASE UNCHANGED <<shown, made>>
      BY <3>2
    <3> QED
      BY <1>1, <3>1, <3>2
  <2> QED
    BY <2>1, <2>2
<1>9. EntriesOk' /\ ClearedOk'
  BY <1>1 DEF Inv, EntriesOk, ClearedOk
<1>16. PagesOk'
  <2>1. /\ OwnId(p, a.id) /\ forms[a.id].status # "none"
        /\ ~forms[a.id].immutable
        /\ \A s \in a.steps : s[1] = p
    BY <1>3 DEF Inv, JobsOk, OwnId
  <2>2. \A q \in Pages : OwnId(q, buildId'[q])
    BY <1>7, <2>1 DEF Inv, PagesOk, OwnId
  <2>3. \A q \in Pages : /\ forms[buildId'[q]].status # "none"
                         /\ q \in steady /\ forms[buildId'[q]].immutable =>
                              Token(q, session[q]) = {}
    BY <1>7, <2>1 DEF Inv, PagesOk
  <2>4. \A q \in Pages, w \in Wrappers : \A s \in shown'[q][w] : s[1] = q
    BY <1>5, <2>1 DEF Inv, PagesOk
  <2> QED
    BY <1>1, <2>2, <2>3, <2>4 DEF PagesOk, OwnId
<1>10. JobsOk'
  BY <1>1, <1>2 DEF Inv, JobsOk, OwnId
<1>11. ASSUME NEW q \in apart, q # p
       PROVE  buildId'[q] = buildId[q] /\ \A w \in Wrappers : shown'[q][w] = shown[q][w]
  BY <1>5, <1>7, <1>11 DEF Inv, TypeOK
<1>12. ASSUME p \in apart
       PROVE  /\ a.old = buildId[p] /\ Covers(a.steps, p)
              /\ forms[a.id].status # "stored" \/ a.steps \subseteq forms[a.id].steps
              /\ \A j \in jobs : j.step[1] # p
              /\ \A d \in calls' : d.object.page # p
              /\ \A b \in answers' : b.step[1] # p
  <2>1. /\ a.old = buildId[p] /\ Covers(a.steps, p)
        /\ forms[a.id].status # "stored" \/ a.steps \subseteq forms[a.id].steps
    BY <1>3, <1>12 DEF Inv, SoloOk
  <2>2. \A j \in jobs : j.step[1] # p
    BY <1>1, <1>12 DEF Inv, SoloOk, RequestsOk, p
  <2>3. \A d \in calls' : d.object.page # p
    BY <1>2, <1>12 DEF Inv, SoloOk, p
  <2>4. \A b \in answers' : b.step[1] # p
    BY <1>8, <2>3 DEF RequestsOk
  <2> QED
    BY <2>1, <2>2, <2>3, <2>4
<1>13. SoloOk'
  <2> SUFFICES ASSUME NEW q \in apart
               PROVE  /\ \A d, f \in calls' : d.object.page = q /\ f.object.page = q => d = f
                      /\ \A j, k \in jobs : j.step[1] = q /\ k.step[1] = q => j = k
                      /\ \A d \in calls', j \in jobs :
                           d.object.page = q /\ j.step[1] = q => d.step = j.step
                      /\ \A j \in jobs : j.step[1] = q =>
                           /\ j.old = buildId'[q]
                           /\ j.at # "posted" => Covers(j.steps, q)'
                      /\ \A b \in answers' : b.step[1] = q =>
                           /\ b.old = buildId'[q]
                           /\ Covers(b.steps, q)'
                           /\ forms[b.id].status # "stored"
                              \/ b.steps \subseteq forms[b.id].steps
    BY <1>1 DEF SoloOk
  <2>1. CASE q = p
    BY <1>12, <2>1, <1>8 DEF Inv, SoloOk
  <2>2. CASE q # p
    BY <1>2, <1>11, <2>2 DEF Inv, SoloOk, Covers
  <2> QED
    BY <2>1, <2>2
<1>14. ShownIsCached'
  <2> SUFFICES ASSUME NEW q \in apart, forms[buildId'[q]].status = "stored",
                      NEW w \in Wrappers
               PROVE  shown'[q][w] \subseteq forms[buildId'[q]].steps
    BY <1>1 DEF ShownIsCached
  <2>1. CASE q = p
    <3>1. buildId'[q] = a.id
      BY <1>3, <1>7, <1>12, <2>1
    <3>2. shown'[q][w] \subseteq a.steps
      BY <1>3, <1>5, <1>12, <2>1 DEF Covers
    <3> QED
      BY <1>12, <2>1, <3>1, <3>2
  <2>2. CASE q # p
    BY <1>11, <2>2 DEF Inv, ShownIsCached
  <2> QED
    BY <2>1, <2>2
<1> QED
  BY <1>8, <1>9, <1>10, <1>13, <1>14, <1>15, <1>16, <1>17 DEF Inv

\* A visitor logs in or out.
LEMMA LoginOrLogoutInv ==
  ASSUME Inv, NEW p \in Pages, LoginOrLogout(p)
  PROVE  Inv'
<1>1. /\ session[p] < MaxSessions
      /\ session' = [session EXCEPT ![p] = @ + 1]
      /\ steady' = steady \ {p}
      /\ UNCHANGED <<pageCache, forms, jobs, answers, calls, ajaxing, progress,
                     made, attached, buildId, shown, sends, apart>>
  BY DEF LoginOrLogout, server, objects, page
<1>2. /\ session' \in [Pages -> 0 .. MaxSessions]
      /\ \A q \in Pages : q \in steady' => q \in steady /\ session'[q] = session[q]
  BY <1>1, AjaxFormAssumption DEF Inv, TypeOK
<1>3. TypeOK' /\ BehaviorsReturn' /\ ObjectsOk' /\ RequestsOk' /\ ClearedOk'
  BY <1>1, <1>2 DEF Inv, TypeOK, BehaviorsReturn, Waiting, ObjectsOk,
                    RequestsOk, ClearedOk
<1>4. WaitingIsShown'
  <2>1. \A q, e : Current(q, e)' = Current(q, e)
    BY <1>1 DEF Current
  <2> QED
    BY <1>1, <2>1 DEF Inv, WaitingIsShown
<1>5. EntriesOk'
  BY <1>1, <1>2, Ids DEF Inv, EntriesOk
<1>6. PagesOk'
  BY <1>1, <1>2 DEF Inv, PagesOk, OwnId
<1>7. JobsOk'
  BY <1>1, <1>2, Records, Ids DEF Inv, JobsOk, OwnId
<1>8. SoloOk' /\ ShownIsCached'
  BY <1>1 DEF Inv, SoloOk, Covers, ShownIsCached
<1> QED
  BY <1>3, <1>4, <1>5, <1>6, <1>7, <1>8 DEF Inv

-----------------------------------------------------------------------------
\* What no step of the server changes.
LEMMA BrowserSame ==
  ASSUME Inv, UNCHANGED browser
  PROVE  /\ UNCHANGED <<calls, ajaxing, progress, made, attached, buildId,
                        shown, session, steady, sends, apart>>
         /\ WaitingIsShown' /\ BehaviorsReturn' /\ ObjectsOk'
<1>1. UNCHANGED <<calls, ajaxing, progress, made, attached, buildId, shown,
                  session, steady, sends, apart>>
  BY DEF browser, objects, page, visits
<1>2. \A p, e : Current(p, e)' = Current(p, e)
  BY <1>1 DEF Current
<1>3. WaitingIsShown'
  BY <1>1, <1>2 DEF Inv, WaitingIsShown
<1> QED
  BY <1>1, <1>3 DEF Inv, BehaviorsReturn, Waiting, ObjectsOk

\* The server takes a request of a page whose visitor neither logged in nor
\* out to come from them, and any request from nobody else.
LEMMA UsersOf ==
  ASSUME Inv, NEW j \in jobs, NEW token \in Users(j)
  PROVE  /\ token \in Tokens
         /\ j.step[1] \in steady => token = Token(j.step[1], session[j.step[1]])
<1>1. j.token \in Tokens /\ j.step[1] \in Pages
  BY Records, Ids DEF Inv
<1>2. token = j.token \/ token = j.token \cap Token(j.step[1], session[j.step[1]])
  BY DEF Users
<1>3. j.step[1] \in steady => j.token = Token(j.step[1], session[j.step[1]])
  BY DEF Inv, JobsOk
<1>4. token \in Tokens
  BY <1>1, <1>2 DEF Tokens
<1> QED
  BY <1>2, <1>3, <1>4

\* The server finds the form of a request.
LEMMA AjaxGetFormInv ==
  ASSUME Inv, NEW j \in jobs, AjaxGetForm(j)
  PROVE  Inv'
<1>0. PICK token \in Users(j) :
        Found(j, token) /\ jobs' = (jobs \ {j}) \cup {Loaded(j, token)}
  BY DEF AjaxGetForm
<1> DEFINE k == Loaded(j, token)
<1>1. /\ j.at = "posted" /\ forms[j.old].status = "stored"
      /\ jobs' = (jobs \ {j}) \cup {k}
      /\ UNCHANGED <<pageCache, forms, answers>> /\ UNCHANGED browser
  BY <1>0 DEF AjaxGetForm, Found
<1>2. /\ j.step \in Steps /\ j.old \in BuildIds /\ j.step[1] \in Pages
      /\ j.step[2] # 0 /\ j.step \in BuildIds
      /\ forms[j.old].steps \subseteq Steps
  BY Records, Ids DEF Inv
<1>3. /\ k \in Jobs /\ k.step = j.step /\ k.at = "loaded" /\ k.old = j.old
      /\ k.steps = forms[j.old].steps /\ k.token = token
      /\ k.id = IF forms[j.old].immutable THEN j.step ELSE j.old
  BY <1>2, UsersOf DEF Loaded, Jobs
<1> HIDE DEF k
<1>4. /\ UNCHANGED <<calls, ajaxing, progress, made, attached, buildId,
                     shown, session, steady, sends, apart>>
      /\ WaitingIsShown' /\ BehaviorsReturn' /\ ObjectsOk'
  BY <1>1, BrowserSame
<1>5. TypeOK'
  BY <1>1, <1>3, <1>4 DEF Inv, TypeOK
<1>6. EntriesOk' /\ PagesOk' /\ ShownIsCached'
  BY <1>1, <1>4 DEF Inv, EntriesOk, PagesOk, OwnId, ShownIsCached
<1>7. ClearedOk'
  BY <1>1, <1>4 DEF Inv, ClearedOk
<1>8. RequestsOk'
  BY <1>1, <1>3, <1>4 DEF Inv, RequestsOk
<1>9. JobsOk'
  <2>1. /\ OwnId(j.step[1], j.old) /\ forms[j.old].status # "none"
        /\ forms[j.old].immutable => forms[j.old].steps = {}
        /\ \A s \in forms[j.old].steps : s[1] = j.old[1]
        /\ \A i \in BuildIds : forms[i].immutable => i[2] = 0
    BY <1>2 DEF Inv, JobsOk, EntriesOk
  <2>2. ~forms[k.id].immutable /\ k.id[1] = k.step[1]
    BY <1>2, <1>3, <2>1 DEF OwnId
  <2>3. \A s \in k.steps : s[1] = k.step[1]
    BY <1>3, <2>1 DEF OwnId
  <2>4. k.step[1] \in steady => k.token = Token(k.step[1], session[k.step[1]])
    BY <1>3, UsersOf
  <2> QED
    BY <1>1, <1>3, <1>4, <2>1, <2>2, <2>3, <2>4 DEF Inv, JobsOk, OwnId
<1>10. SoloOk'
  <2>1. ASSUME j.step[1] \in apart
        PROVE  Covers(k.steps, j.step[1])
    BY <1>1, <1>2, <1>3, <2>1 DEF Inv, SoloOk, ShownIsCached, Covers
  <2> QED
    BY <1>1, <1>3, <1>4, <2>1 DEF Inv, SoloOk, Covers
<1> QED
  BY <1>4, <1>5, <1>6, <1>7, <1>8, <1>9, <1>10 DEF Inv

\* The server does not find the form of a request.
LEMMA RefuseInv ==
  ASSUME Inv, NEW j \in jobs, Refuse(j)
  PROVE  Inv'
<1>1. /\ j.at = "posted" /\ jobs' = jobs \ {j}
      /\ UNCHANGED <<pageCache, forms, answers>> /\ UNCHANGED browser
  BY DEF Refuse
<1>2. /\ UNCHANGED <<calls, ajaxing, progress, made, attached, buildId,
                     shown, session, steady, sends, apart>>
      /\ WaitingIsShown' /\ BehaviorsReturn' /\ ObjectsOk'
  BY <1>1, BrowserSame
<1>3. TypeOK' /\ EntriesOk' /\ PagesOk' /\ ShownIsCached'
  BY <1>1, <1>2 DEF Inv, TypeOK, EntriesOk, PagesOk, OwnId, ShownIsCached
<1>4. RequestsOk' /\ JobsOk' /\ ClearedOk'
  BY <1>1, <1>2 DEF Inv, RequestsOk, JobsOk, OwnId, ClearedOk
<1>5. SoloOk'
  BY <1>1, <1>2 DEF Inv, SoloOk, Covers
<1> QED
  BY <1>2, <1>3, <1>4, <1>5 DEF Inv

\* The server deletes the form of a submission.
LEMMA SubmitInv ==
  ASSUME Inv, NEW j \in jobs, Submit(j)
  PROVE  Inv'
<1> DEFINE k == [j EXCEPT !.at = "cleared"]
<1>1. /\ j.at = "loaded"
      /\ forms' = [forms EXCEPT ![j.id] = Entry("cleared", FALSE, {}, {})]
      /\ jobs' = (jobs \ {j}) \cup {k}
      /\ UNCHANGED <<pageCache, answers>> /\ UNCHANGED browser
  BY DEF Submit
<1>2. /\ UNCHANGED <<calls, ajaxing, progress, made, attached, buildId,
                     shown, session, steady, sends, apart>>
      /\ WaitingIsShown' /\ BehaviorsReturn' /\ ObjectsOk'
  BY <1>1, BrowserSame
<1>3. /\ k \in Jobs /\ k.step = j.step /\ k.at = "cleared" /\ k.old = j.old
      /\ k.id = j.id /\ k.token = j.token /\ k.steps = j.steps
  BY DEF Inv, TypeOK, Jobs
<1> HIDE DEF k
<1>4. /\ j.id \in BuildIds /\ ~forms[j.id].immutable
  BY <1>1, Records DEF Inv, JobsOk
<1>14. Entry("cleared", FALSE, {}, {}) \in Entries
  BY NoToken DEF Entry, Entries
<1>5. /\ forms' \in [BuildIds -> Entries]
      /\ forms'[j.id].status = "cleared" /\ forms'[j.id].steps = {}
      /\ forms'[j.id].immutable = FALSE
      /\ \A i \in BuildIds : i # j.id => forms'[i] = forms[i]
  BY <1>1, <1>4, <1>14 DEF Inv, TypeOK, Entry
<1>6. \A i \in BuildIds : /\ forms'[i].immutable <=> forms[i].immutable
                          /\ forms[i].status # "none" => forms'[i].status # "none"
                          /\ forms'[i].status = "stored" => forms'[i] = forms[i]
  BY <1>4, <1>5
<1>7. TypeOK' /\ RequestsOk'
  <2>1. TypeOK'
    BY <1>1, <1>2, <1>3, <1>5 DEF Inv, TypeOK
  <2>6. jobs' = (jobs \ {j}) \cup {k}
    BY <1>1
  <2>2. \A i \in jobs' : i = k \/ (i \in jobs /\ i # j)
    BY <2>6
  <2>3. \A i, h \in jobs' : i.step = h.step => i = h
    BY <1>3, <2>2 DEF Inv, RequestsOk
  <2>4. /\ \A i \in jobs' : i.step[2] <= sends
        /\ \A a \in answers, i \in jobs' : a.step # i.step
    BY <1>3, <2>2 DEF Inv, RequestsOk
  <2>5. RequestsOk'
    BY <1>1, <1>2, <2>3, <2>4 DEF Inv, RequestsOk
  <2> QED
    BY <2>1, <2>5
<1>8. EntriesOk'
  BY <1>2, <1>5 DEF Inv, EntriesOk
<1>9. ClearedOk'
  BY <1>1, <1>3, <1>5 DEF Inv, ClearedOk
<1>10. PagesOk'
  BY <1>2, <1>6, Records DEF Inv, PagesOk, OwnId
<1>11. JobsOk'
  <2>1. ASSUME NEW i \in jobs'
        PROVE  \E h \in jobs : /\ i.step = h.step /\ i.old = h.old /\ i.id = h.id
                               /\ i.token = h.token /\ i.steps = h.steps
                               /\ i.at # "posted" => h.at # "posted"
    BY <1>1, <1>3
  <2>2. ASSUME NEW i \in jobs'
        PROVE  /\ OwnId(i.step[1], i.old)'
               /\ forms'[i.old].status # "none"
               /\ i.step[1] \in steady => i.token = Token(i.step[1], session[i.step[1]])
               /\ i.at # "posted" =>
                    /\ ~forms'[i.id].immutable
                    /\ i.id[1] = i.step[1]
                    /\ \A x \in i.steps : x[1] = i.step[1]
    <3>1. PICK h \in jobs : /\ i.step = h.step /\ i.old = h.old /\ i.id = h.id
                            /\ i.token = h.token /\ i.steps = h.steps
                            /\ i.at # "posted" => h.at # "posted"
      BY <2>1
    <3>2. h.old \in BuildIds /\ h.id \in BuildIds
      BY Records DEF Inv
    <3>3. /\ OwnId(h.step[1], h.old)
          /\ forms[h.old].status # "none"
          /\ h.step[1] \in steady => h.token = Token(h.step[1], session[h.step[1]])
          /\ h.at # "posted" =>
               /\ ~forms[h.id].immutable
               /\ h.id[1] = h.step[1]
               /\ \A x \in h.steps : x[1] = h.step[1]
      BY DEF Inv, JobsOk
    <3>4. /\ h.step[1] = h.old[1] \/ forms'[h.old].immutable
          /\ forms'[h.old].status # "none"
          /\ forms'[h.id].immutable <=> forms[h.id].immutable
      BY <1>6, <3>2, <3>3 DEF OwnId
    <3>5. OwnId(i.step[1], i.old)'
      BY <3>1, <3>4 DEF OwnId
    <3>6. i.at # "posted" => /\ ~forms'[i.id].immutable
                             /\ i.id[1] = i.step[1]
                             /\ \A x \in i.steps : x[1] = i.step[1]
      BY <3>1, <3>3, <3>4
    <3> QED
      BY <3>1, <3>3, <3>4, <3>5, <3>6
  <2>3. \A a \in answers : /\ forms'[a.id].status # "none"
                           /\ ~forms'[a.id].immutable
    BY <1>6, Records DEF Inv, JobsOk
  <2> QED
    BY <1>1, <1>2, <2>2, <2>3 DEF Inv, JobsOk
<1>12. SoloOk'
  <2>1. ASSUME NEW i \in jobs'
        PROVE  \E h \in jobs : /\ i.step = h.step /\ i.old = h.old
                               /\ i.steps = h.steps /\ (h = j <=> i = k)
                               /\ i = h \/ i = k
                               /\ i.at # "posted" => h.at # "posted"
    <3>1. CASE i = k
      BY <1>1, <1>3, <3>1
    <3>2. CASE i # k
      BY <1>1, <3>2
    <3> QED
      BY <3>1, <3>2
  <2>2. ASSUME NEW a \in answers, forms'[a.id].status = "stored"
        PROVE  forms'[a.id] = forms[a.id]
    BY <1>6, <2>2, Records DEF Inv
  <2> SUFFICES ASSUME NEW p \in apart
               PROVE  /\ \A c, d \in calls : c.object.page = p /\ d.object.page = p => c = d
                      /\ \A i, h \in jobs' : i.step[1] = p /\ h.step[1] = p => i = h
                      /\ \A c \in calls, i \in jobs' :
                           c.object.page = p /\ i.step[1] = p => c.step = i.step
                      /\ \A i \in jobs' : i.step[1] = p =>
                           /\ i.old = buildId[p]
                           /\ i.at # "posted" => Covers(i.steps, p)
                      /\ \A a \in answers : a.step[1] = p =>
                           /\ a.old = buildId[p]
                           /\ Covers(a.steps, p)
                           /\ forms'[a.id].status # "stored"
                              \/ a.steps \subseteq forms'[a.id].steps
    <3>1. answers' = answers
      BY <1>1
    <3> QED
      BY <1>2, <3>1 DEF SoloOk, Covers
  <2>3. \A i, h \in jobs' : i.step[1] = p /\ h.step[1] = p => i = h
    BY <1>1, <1>3 DEF Inv, SoloOk
  <2>4. \A c \in calls, i \in jobs' :
          c.object.page = p /\ i.step[1] = p => c.step = i.step
    BY <2>1 DEF Inv, SoloOk
  <2>5. \A i \in jobs' : i.step[1] = p =>
          /\ i.old = buildId[p]
          /\ i.at # "posted" => Covers(i.steps, p)
    BY <2>1 DEF Inv, SoloOk
  <2> QED
    BY <2>2, <2>3, <2>4, <2>5 DEF Inv, SoloOk
<1>13. ShownIsCached'
  BY <1>2, <1>6, Records DEF Inv, TypeOK, ShownIsCached
<1> QED
  BY <1>2, <1>7, <1>8, <1>9, <1>10, <1>11, <1>12, <1>13 DEF Inv

\* A request ends without an answer.
LEMMA DiesInv ==
  ASSUME Inv, NEW j \in jobs, Dies(j)
  PROVE  Inv'
<1>1. /\ jobs' = jobs \ {j}
      /\ forms' = IF j.at = "cleared" /\ forms[j.id].status = "cleared"
                  THEN [forms EXCEPT ![j.id] = Entry("lost", FALSE, {}, {})]
                  ELSE forms
      /\ UNCHANGED <<pageCache, answers>> /\ UNCHANGED browser
  BY DEF Dies
<1>2. /\ UNCHANGED <<calls, ajaxing, progress, made, attached, buildId,
                     shown, session, steady, sends, apart>>
      /\ WaitingIsShown' /\ BehaviorsReturn' /\ ObjectsOk'
  BY <1>1, BrowserSame
<1>3. j.id \in BuildIds
  BY Records DEF Inv
<1>4. ASSUME NEW i \in BuildIds
      PROVE  \/ forms'[i] = forms[i]
             \/ /\ i = j.id /\ j.at = "cleared" /\ forms[i].status = "cleared"
                /\ forms'[i] = Entry("lost", FALSE, {}, {})
  BY <1>1, <1>3 DEF Inv, TypeOK
<1>5. forms' \in [BuildIds -> Entries]
  <2>1. Entry("lost", FALSE, {}, {}) \in Entries
    BY NoToken DEF Entry, Entries
  <2> QED
    BY <1>1, <1>3, <2>1 DEF Inv, TypeOK
<1>6. \A i \in BuildIds :
        /\ forms'[i].immutable <=> forms[i].immutable
        /\ forms[i].status # "none" => forms'[i].status # "none"
        /\ forms'[i].status = "stored" => forms'[i] = forms[i]
        /\ forms'[i] = forms[i] \/ forms'[i].status = "lost"
        /\ forms'[i].steps \subseteq forms[i].steps
        /\ i = j.id /\ j.at = "cleared" => forms'[i].status # "cleared"
        /\ forms[i].immutable => forms'[i] = forms[i]
  <2>1. \A i \in BuildIds : forms[i].immutable => forms[i].status # "cleared"
    BY DEF Inv, EntriesOk
  <2> SUFFICES ASSUME NEW i \in BuildIds
               PROVE  /\ forms'[i].immutable <=> forms[i].immutable
                      /\ forms[i].status # "none" => forms'[i].status # "none"
                      /\ forms'[i].status = "stored" => forms'[i] = forms[i]
                      /\ forms'[i] = forms[i] \/ forms'[i].status = "lost"
                      /\ forms'[i].steps \subseteq forms[i].steps
                      /\ i = j.id /\ j.at = "cleared" => forms'[i].status # "cleared"
                      /\ forms[i].immutable => forms'[i] = forms[i]
    OBVIOUS
  <2>2. CASE j.at = "cleared" /\ forms[j.id].status = "cleared" /\ i = j.id
    <3>1. forms'[i] = Entry("lost", FALSE, {}, {})
      BY <1>1, <1>3, <2>2 DEF Inv, TypeOK
    <3> QED
      BY <2>1, <2>2, <3>1 DEF Entry
  <2>3. CASE ~(j.at = "cleared" /\ forms[j.id].status = "cleared" /\ i = j.id)
    <3>1. forms'[i] = forms[i]
      BY <1>4, <2>3
    <3> QED
      BY <2>3, <3>1
  <2> QED
    BY <2>2, <2>3
<1>7. TypeOK' /\ RequestsOk'
  BY <1>1, <1>2, <1>5 DEF Inv, TypeOK, RequestsOk
<1>8. EntriesOk'
  BY <1>2, <1>6 DEF Inv, EntriesOk
<1>9. ClearedOk'
  BY <1>1, <1>6 DEF Inv, ClearedOk
<1>10. PagesOk'
  BY <1>2, <1>6, Records DEF Inv, PagesOk, OwnId
<1>11. JobsOk'
  BY <1>1, <1>2, <1>6, Records DEF Inv, JobsOk, OwnId
<1>12. SoloOk'
  <2>1. ASSUME NEW a \in answers, forms'[a.id].status = "stored"
        PROVE  forms'[a.id] = forms[a.id]
    BY <1>6, <2>1, Records DEF Inv
  <2>2. answers' = answers /\ \A k \in jobs' : k \in jobs
    BY <1>1
  <2> QED
    BY <1>2, <2>1, <2>2 DEF Inv, SoloOk, Covers
<1>13. ShownIsCached'
  BY <1>2, <1>6, Records DEF Inv, TypeOK, ShownIsCached
<1> QED
  BY <1>2, <1>7, <1>8, <1>9, <1>10, <1>11, <1>12, <1>13 DEF Inv

\* The server processes a step and stores the form it leads to.
LEMMA AjaxFormCallbackInv ==
  ASSUME Inv, NEW j \in jobs, AjaxFormCallback(j)
  PROVE  Inv'
<1>0. PICK rebuilt \in BOOLEAN :
        /\ j.at # "posted"
        /\ forms' = [forms EXCEPT ![j.id] =
                       Entry("stored", FALSE, j.token, Rendered(j, rebuilt))]
        /\ jobs' = jobs \ {j}
        /\ answers' = answers \cup Answer(j, Rendered(j, rebuilt))
        /\ UNCHANGED <<pageCache, browser>>
  BY DEF AjaxFormCallback
<1> DEFINE steps == Rendered(j, rebuilt)
<1>1. /\ steps = j.steps \/ steps = j.steps \cup {j.step}
      /\ j.at # "posted"
      /\ forms' = [forms EXCEPT ![j.id] = Entry("stored", FALSE, j.token, steps)]
      /\ jobs' = jobs \ {j}
      /\ answers' = answers \cup Answer(j, steps)
      /\ UNCHANGED pageCache /\ UNCHANGED browser
  BY <1>0 DEF Rendered
<1> HIDE DEF steps
<1>2. /\ j.step \in Steps /\ j.old \in BuildIds /\ j.id \in BuildIds
      /\ j.step[1] \in Pages /\ j.token \in Tokens
      /\ steps \subseteq Steps /\ j.steps \subseteq steps
  BY <1>1, Records, Ids DEF Inv
<1>3. /\ j.id[1] = j.step[1] /\ ~forms[j.id].immutable
      /\ \A s \in steps : s[1] = j.step[1]
      /\ j.step[1] \in steady => j.token = Token(j.step[1], session[j.step[1]])
  BY <1>1 DEF Inv, JobsOk
<1>17. Entry("stored", FALSE, j.token, steps) \in Entries
  BY <1>2 DEF Entry, Entries
<1>4. /\ forms' \in [BuildIds -> Entries]
      /\ forms'[j.id].status = "stored" /\ forms'[j.id].steps = steps
      /\ forms'[j.id].token = j.token /\ forms'[j.id].immutable = FALSE
      /\ \A i \in BuildIds : i # j.id => forms'[i] = forms[i]
  BY <1>1, <1>2, <1>17 DEF Inv, TypeOK, Entry
<1>5. ASSUME NEW a \in answers'
      PROVE  \/ a \in answers
             \/ /\ a \in Answers /\ a.step = j.step /\ a.old = j.old
                /\ a.id = j.id /\ a.steps = steps
                /\ \E c \in calls : c.step = j.step
  BY <1>1, <1>2 DEF Answers, Answer
<1>15. answers \subseteq answers'
  BY <1>1
<1>16. /\ UNCHANGED <<calls, ajaxing, progress, made, attached, buildId,
                      shown, session, steady, sends, apart>>
       /\ WaitingIsShown' /\ BehaviorsReturn' /\ ObjectsOk'
  BY <1>1, BrowserSame
<1>6. TypeOK'
  <2>1. answers' \subseteq Answers
    BY <1>5 DEF Inv, TypeOK
  <2> QED
    BY <1>1, <1>4, <1>16, <2>1 DEF Inv, TypeOK
<1>8. RequestsOk'
  <2>1. \A a \in answers' : \E c \in calls' : c.step = a.step
    BY <1>5, <1>16 DEF Inv, RequestsOk
  <2>2. \A a \in answers', k \in jobs' : a.step # k.step
    BY <1>1, <1>5 DEF Inv, RequestsOk
  <2> QED
    BY <1>1, <1>16, <2>1, <2>2 DEF Inv, RequestsOk
<1>9. \A i \in BuildIds : /\ forms'[i].immutable <=> forms[i].immutable
                          /\ forms[i].status # "none" => forms'[i].status # "none"
  BY <1>3, <1>4
<1>10. EntriesOk' /\ ClearedOk' /\ PagesOk'
  <2>1. EntriesOk'
    BY <1>3, <1>4, <1>16 DEF Inv, EntriesOk
  <2>2. ClearedOk'
    BY <1>1, <1>4 DEF Inv, ClearedOk
  <2>3. PagesOk'
    BY <1>9, <1>16, Records DEF Inv, PagesOk, OwnId
  <2> QED
    BY <2>1, <2>2, <2>3
<1>11. JobsOk'
  <2>1. ASSUME NEW k \in jobs'
        PROVE  /\ OwnId(k.step[1], k.old)'
               /\ forms'[k.old].status # "none"
               /\ k.step[1] \in steady => k.token = Token(k.step[1], session[k.step[1]])
               /\ k.at # "posted" =>
                    /\ ~forms'[k.id].immutable
                    /\ k.id[1] = k.step[1]
                    /\ \A s \in k.steps : s[1] = k.step[1]
    <3>1. k \in jobs /\ k.old \in BuildIds /\ k.id \in BuildIds
      BY <1>1, Records DEF Inv
    <3> QED
      BY <1>9, <3>1 DEF Inv, JobsOk, OwnId
  <2>2. ASSUME NEW a \in answers'
        PROVE  /\ forms'[a.id].status # "none" /\ ~forms'[a.id].immutable
               /\ a.id[1] = a.step[1]
               /\ \A s \in a.steps : s[1] = a.step[1]
    <3>1. CASE a \in answers
      BY <1>9, <3>1, Records DEF Inv, JobsOk
    <3>2. CASE a \notin answers
      BY <1>3, <1>4, <1>5, <3>2
    <3> QED
      BY <3>1, <3>2
  <2> QED
    BY <1>16, <2>1, <2>2 DEF JobsOk
<1>12. ASSUME NEW p \in apart
       PROVE  \A a \in answers' : a.step[1] = p =>
                /\ a.old = buildId'[p]
                /\ Covers(a.steps, p)'
                /\ forms'[a.id].status # "stored"
                   \/ a.steps \subseteq forms'[a.id].steps
  <2> SUFFICES ASSUME NEW a \in answers', a.step[1] = p
               PROVE  /\ a.old = buildId[p]
                      /\ Covers(a.steps, p)
                      /\ forms'[a.id].status # "stored"
                         \/ a.steps \subseteq forms'[a.id].steps
    BY <1>16 DEF Covers
  <2>1. CASE a \in answers
    <3>1. /\ a.old = buildId[p] /\ Covers(a.steps, p)
          /\ forms[a.id].status # "stored" \/ a.steps \subseteq forms[a.id].steps
          /\ a.id \in BuildIds /\ a.id[1] = p
      BY <2>1, Records DEF Inv, SoloOk, JobsOk
    <3>2. PICK c \in calls : c.step = a.step
      BY <2>1 DEF Inv, RequestsOk
    <3>3. c.object.page = p
      BY <3>2 DEF Inv, RequestsOk
    <3>4. j.step[1] # p
      BY <2>1, <3>2, <3>3 DEF Inv, SoloOk, RequestsOk
    <3> QED
      BY <1>3, <1>4, <3>1, <3>4
  <2>2. CASE a \notin answers
    <3>1. a.step = j.step /\ a.old = j.old /\ a.id = j.id /\ a.steps = steps
      BY <1>5, <2>2
    <3>2. j.old = buildId[p] /\ Covers(j.steps, p)
      BY <1>1, <3>1 DEF Inv, SoloOk
    <3> QED
      BY <1>2, <1>4, <3>1, <3>2 DEF Covers
  <2> QED
    BY <2>1, <2>2
<1>13. SoloOk'
  <2>1. \A k \in jobs' : k \in jobs
    BY <1>1
  <2> QED
    BY <1>12, <1>16, <2>1 DEF Inv, SoloOk, Covers
<1>14. ShownIsCached'
  <2> SUFFICES ASSUME NEW p \in apart, forms'[buildId[p]].status = "stored",
                      NEW w \in Wrappers
               PROVE  shown[p][w] \subseteq forms'[buildId[p]].steps
    BY <1>16 DEF ShownIsCached
  <2>1. p \in Pages /\ buildId[p] \in BuildIds
    BY DEF Inv, TypeOK
  <2>2. CASE j.id = buildId[p]
    <3>1. j.step[1] = p
      BY <1>3, <2>1, <2>2 DEF Inv, PagesOk, OwnId
    <3>2. Covers(j.steps, p)
      BY <1>1, <3>1 DEF Inv, SoloOk
    <3> QED
      BY <1>2, <1>4, <2>2, <3>2 DEF Covers
  <2>3. CASE j.id # buildId[p]
    BY <1>4, <2>1, <2>3 DEF Inv, ShownIsCached
  <2> QED
    BY <2>2, <2>3
<1> QED
  BY <1>6, <1>8, <1>10, <1>11, <1>13, <1>14, <1>16 DEF Inv

\* The server forgets a form.
LEMMA ExpireInv ==
  ASSUME Inv, NEW i \in BuildIds, Expire(i)
  PROVE  Inv'
<1>1. /\ forms[i].status = "stored"
      /\ forms' = [forms EXCEPT ![i] =
                     Entry("expired", forms[i].immutable, {}, {})]
      /\ UNCHANGED <<pageCache, jobs, answers>> /\ UNCHANGED browser
  BY DEF Expire
<1>2. /\ UNCHANGED <<calls, ajaxing, progress, made, attached, buildId,
                     shown, session, steady, sends, apart>>
      /\ WaitingIsShown' /\ BehaviorsReturn' /\ ObjectsOk'
  BY <1>1, BrowserSame
<1>3. forms[i].immutable \in BOOLEAN
  BY Records DEF Inv
<1>13. Entry("expired", forms[i].immutable, {}, {}) \in Entries
  BY <1>3, NoToken DEF Entry, Entries
<1>4. /\ forms' \in [BuildIds -> Entries]
      /\ forms'[i].status = "expired" /\ forms'[i].steps = {}
      /\ forms'[i].token = {} /\ forms'[i].immutable = forms[i].immutable
      /\ \A k \in BuildIds : k # i => forms'[k] = forms[k]
  BY <1>1, <1>13 DEF Inv, TypeOK, Entry
<1>5. \A k \in BuildIds : /\ forms'[k].immutable <=> forms[k].immutable
                          /\ forms[k].status # "none" => forms'[k].status # "none"
                          /\ forms'[k].status = "stored" => forms'[k] = forms[k]
  BY <1>4
<1>6. TypeOK' /\ RequestsOk'
  BY <1>1, <1>2, <1>4 DEF Inv, TypeOK, RequestsOk
<1>7. EntriesOk'
  BY <1>2, <1>4 DEF Inv, EntriesOk
<1>8. ClearedOk'
  BY <1>1, <1>4 DEF Inv, ClearedOk
<1>9. PagesOk'
  BY <1>2, <1>5, Records DEF Inv, PagesOk, OwnId
<1>10. JobsOk'
  BY <1>1, <1>2, <1>5, Records DEF Inv, JobsOk, OwnId
<1>11. SoloOk'
  <2>1. \A a \in answers : a.id \in BuildIds
    BY Records DEF Inv
  <2> QED
    BY <1>1, <1>2, <1>5, <2>1 DEF Inv, SoloOk, Covers
<1>12. ShownIsCached'
  BY <1>2, <1>5, Records DEF Inv, TypeOK, ShownIsCached
<1> QED
  BY <1>2, <1>6, <1>7, <1>8, <1>9, <1>10, <1>11, <1>12 DEF Inv

-----------------------------------------------------------------------------
\* A step that changes nothing keeps the invariant.
LEMMA StutterInv == Inv /\ UNCHANGED vars => Inv'
<1> SUFFICES ASSUME Inv, UNCHANGED vars PROVE Inv'
  OBVIOUS
<1>1. UNCHANGED browser /\ UNCHANGED <<pageCache, forms, jobs, answers>>
  BY DEF vars, server, browser, visits
<1>2. /\ UNCHANGED <<calls, ajaxing, progress, made, attached, buildId,
                     shown, session, steady, sends, apart>>
      /\ WaitingIsShown' /\ BehaviorsReturn' /\ ObjectsOk'
  BY <1>1, BrowserSame
<1>3. TypeOK' /\ RequestsOk' /\ EntriesOk' /\ ClearedOk' /\ PagesOk' /\ JobsOk'
      /\ ShownIsCached'
  BY <1>1, <1>2 DEF Inv, TypeOK, RequestsOk, EntriesOk, ClearedOk, PagesOk,
                    JobsOk, OwnId, ShownIsCached
<1>4. SoloOk'
  BY <1>1, <1>2 DEF Inv, SoloOk, Covers
<1> QED
  BY <1>2, <1>3, <1>4 DEF Inv

LEMMA NextInv == Inv /\ [Next]_vars => Inv'
<1> SUFFICES ASSUME Inv, [Next]_vars PROVE Inv'
  OBVIOUS
<1>1. CASE Next
  BY <1>1, EventResponseInv, SuccessInv, ErrorInv, LoginOrLogoutInv, AjaxGetFormInv,
     RefuseInv, SubmitInv, AjaxFormCallbackInv, DiesInv, ExpireInv DEF Next
<1>2. CASE UNCHANGED vars
  BY <1>2, StutterInv
<1> QED
  BY <1>1, <1>2

LEMMA Invariance == Spec => []Inv
BY InitInv, NextInv, PTL DEF Spec

\* Every variable of the browser and of the server keeps its type.
THEOREM FormTypes == Spec => []TypeOK
<1>1. Inv => TypeOK
  BY DEF Inv
<1> QED
  BY <1>1, Invariance, PTL

\* The flag is set exactly while its ajax object waits for its one request,
\* and the throbbers on the page are those of the elements there that wait
\* (eventResponse, success, error, insert).
THEOREM WaitsAreShown == Spec => []WaitingIsShown
<1>1. Inv => WaitingIsShown
  BY DEF Inv
<1> QED
  BY <1>1, Invariance, PTL

\* The behaviors that beforeSerialize detaches are attached again.
THEOREM BehaviorsAreBack == Spec => []BehaviorsReturn
<1>1. Inv => BehaviorsReturn
  BY DEF Inv
<1> QED
  BY <1>1, Invariance, PTL

\* No visitor sees or submits the steps of another (form_get_cache).
THEOREM VisitorsAreIsolated == Spec => []Isolated
<1>1. Inv => Isolated
  <2> SUFFICES ASSUME Inv, NEW p \in Pages
               PROVE  /\ \A w \in Wrappers : \A s \in shown[p][w] : s[1] = p
                      /\ \A s \in forms[buildId[p]].steps : s[1] = p
    BY DEF Isolated
  <2>1. buildId[p] \in BuildIds
    BY DEF Inv, TypeOK
  <2> QED
    BY <2>1 DEF Inv, EntriesOk, PagesOk, OwnId
<1> QED
  BY <1>1, Invariance, PTL

\* A form that a page holds was stored, by the page's visitor if they have
\* not logged in or out, and is missing only while the request that deleted
\* it has not ended (ajax_get_form, drupal_process_form).
THEOREM FormsAreKnown == Spec => []FormIsKnown
<1>1. Inv => FormIsKnown
  <2> SUFFICES ASSUME Inv, NEW p \in Pages
               PROVE  /\ forms[buildId[p]].status # "none"
                      /\ forms[buildId[p]].status = "cleared" =>
                           \E j \in jobs : j.at = "cleared" /\ j.id = buildId[p]
                      /\ forms[buildId[p]].status = "stored" /\ p \in steady =>
                           forms[buildId[p]].token = Token(p, session[p])
    BY DEF FormIsKnown, Inv, JobsOk
  <2>1. buildId[p] \in BuildIds
    BY Records DEF Inv
  <2>2. forms[buildId[p]].status # "none" /\ OwnId(p, buildId[p])
        /\ (p \in steady /\ forms[buildId[p]].immutable => Token(p, session[p]) = {})
    BY DEF Inv, PagesOk
  <2> QED
    BY <2>1, <2>2 DEF Inv, EntriesOk, ClearedOk, OwnId
<1> QED
  BY <1>1, Invariance, PTL

\* What a page shows is in the form it submits next, while its requests do
\* not overlap and while it is stored.
THEOREM ShowsTheCachedForm == Spec => []ShownIsCached
<1>1. Inv => ShownIsCached
  BY DEF Inv
<1> QED
  BY <1>1, Invariance, PTL

\* The form of a cached page is not altered (form_get_cache, form_set_cache).
THEOREM ImmutableFormsStay == Spec => ImmutableIsKept
<1>1. ASSUME Inv, [Next]_vars, NEW i \in BuildIds,
             forms[i].status = "stored", forms[i].immutable
      PROVE  forms'[i] = forms[i] \/ forms'[i].status = "expired"
  <2>1. ASSUME NEW j \in jobs, AjaxFormCallback(j) \/ Submit(j)
        PROVE  forms'[i] = forms[i]
    <3>1. j.id # i
      BY <1>1, <2>1 DEF AjaxFormCallback, Submit, Inv, JobsOk
    <3>2. \E f : forms' = [forms EXCEPT ![j.id] = f]
      BY <2>1 DEF AjaxFormCallback, Submit
    <3> QED
      BY <1>1, <3>1, <3>2 DEF Inv, TypeOK
  <2>2. ASSUME NEW k \in BuildIds, Expire(k)
        PROVE  forms'[i] = forms[i] \/ forms'[i].status = "expired"
    <3>1. CASE k = i
      <4>1. forms'[i] = Entry("expired", forms[i].immutable, {}, {})
        BY <1>1, <2>2, <3>1 DEF Expire, Inv, TypeOK
      <4> QED
        BY <4>1 DEF Entry
    <3>2. CASE k # i
      BY <1>1, <2>2, <3>2 DEF Expire, Inv, TypeOK
    <3> QED
      BY <3>1, <3>2
  <2>3. ASSUME NEW j \in jobs, Dies(j)
        PROVE  forms'[i] = forms[i]
    BY <1>1, <2>3 DEF Dies, Inv, TypeOK
  <2>4. CASE UNCHANGED forms
    BY <2>4
  <2>5. CASE UNCHANGED vars
    BY <2>5 DEF vars, server
  <2>6. CASE Next
    BY <2>1, <2>2, <2>3, <2>4, <2>6
    DEF Next, EventResponse, Success, Error, LoginOrLogout, server,
        AjaxGetForm, Refuse
  <2> QED
    BY <1>1, <2>5, <2>6
<1>2. Inv /\ [Next]_vars =>
        [\A i \in BuildIds : forms[i].status = "stored" /\ forms[i].immutable =>
           forms'[i] = forms[i] \/ forms'[i].status = "expired"]_vars
  BY <1>1
<1> QED
  BY <1>2, Invariance, PTL DEF Spec, ImmutableIsKept
=============================================================================
