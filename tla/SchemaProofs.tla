----------------------------- MODULE SchemaProofs -----------------------------
(***************************************************************************)
(* When nothing fails that anybody notices, the database has the schema of *)
(* the code that is live after every deploy and every rollback.  This is   *)
(* about one site and one operator, and any number of servers.             *)
(*                                                                         *)
(* The argument follows the whole history of the database server.  Between *)
(* two commands the newest release is live, the database is at its schema, *)
(* and each release but the first keeps a dump that is at the schema of    *)
(* the release before it: so the dumps are a chain down to the first       *)
(* release.  A deploy adds a release at the end of the chain, with a dump  *)
(* of what was live, and the updates bring the database to its code.  A    *)
(* rollback goes to the last but one release, which a server finds by      *)
(* "ls -t" and revert_database by name: NamesInOrder says that both orders *)
(* agree.  It takes the last dump and deletes the last release, so the     *)
(* chain is one shorter.  The clean-up shortens the chain at its other end *)
(* and leaves no gap in it.                                                *)
(*                                                                         *)
(* The other servers matter for what they keep (Agree): any of them may    *)
(* be the one that decides which release a rollback goes to.  They find    *)
(* the same one, which is the second result (RollbackReadyAgreed).         *)
(***************************************************************************)
EXTENDS SuccessProofs

\* git and the build may fail unseen, as they leave a tree that boots; nothing else.
NothingFails == Faults \subseteq {"git", "build"}
StagesShipped == Revs \subseteq StageRevs

\* The run as the database server sees it: past a step it has done itself.
DbRun(run) == IF run.status = "running" /\ DbHost \in HostsOf(run.at) \ run.todo
              THEN [run EXCEPT !.at = After[run.cmd][run.at]] ELSE run

\* How far a run has come there.
PutSteps == {"dump", "aliases", "link", "web", "settings", "updatedb", "ban", "cleanup", "end"}
Going(run) == run.status \in {"running", "ok"}
Put(run) == Going(run) /\ run.cmd = "deploy" /\ run.at \in PutSteps
Updated(run) == Put(run) /\ run.at \in {"ban", "cleanup", "end"}
Picked(run) == Going(run) /\ run.cmd = "rollback" /\ run.at # "pick"
Unpacked(run) == Picked(run) /\ run.at # "gunzip"
Imported(run) == Unpacked(run) /\ run.at \notin {"drop", "import"}
Archived(run) == Picked(run) /\ run.at = "end"

Names == releases[DbHost]
Src(r) == code[DbHost][r].src
\* b is the next of the names S after a.
Follows(S, a, b) == a \in S /\ b \in S /\ a < b /\ \A c \in S : c <= a \/ c >= b

\* A run that goes on waits for a machine that does its step.
TodoOf(run) == run.status = "running" => run.todo # {} /\ run.todo \subseteq HostsOf(run.at)
TodoOk == \A o \in Operators : TodoOf(runs[o])
\* Every tree boots, and is no newer than the one it was taken from.
AllBoot == /\ staged.boots
           /\ \A h \in Hosts : cache[h].boots /\ \A r \in releases[h] : code[h][r].boots
SourcesGrow == /\ staged.src <= head /\ cache[DbHost].src <= staged.src
               /\ \A r \in Names : Src(r) <= cache[DbHost].src

\* Between two commands.
Settled(run) ==
  ~Put(run) /\ ~Picked(run) =>
    /\ db[1].up /\ current[DbHost] \in Newest(Names)
    /\ \A r \in Newest(Names) : db[1].schema = Src(r)
\* From the copy of the release on: its code is never behind the database.
DeployFits(run) ==
  Put(run) =>
    /\ run.rel \in Newest(Names) /\ db[1].up
    /\ db[1].schema <= Src(run.rel)
    /\ run.at = "dump" => \A a \in Names : Follows(Names, a, run.rel) => db[1].schema = Src(a)
    /\ Updated(run) => db[1].schema = Src(run.rel)
\* The newest release is the one to revert, and its dump is there.
Reverts(run, n) ==
  /\ Follows(Names, run.rel, n)
  /\ IF Unpacked(run) THEN run.last = n /\ dump[n].form = "sql" ELSE dump[n].form = "gz"
RollbackFits(run) ==
  Picked(run) =>
    /\ run.rel \in Names
    /\ IF Archived(run) THEN run.rel \in Newest(Names)
                        ELSE \E n \in Newest(Names) : Reverts(run, n)
    /\ run.at # "import" => db[1].up
    /\ Imported(run) => db[1].schema = Src(run.rel)
\* A dump was taken of the release before its own.
DumpsFit ==
  \A a, b \in Names : Follows(Names, a, b) /\ dump[b].form # "none" => dump[b].schema = Src(a)
\* The dump of b is about to be taken, or was unpacked by this run.
InHand(run, b) == \/ Put(run) /\ run.at = "dump" /\ b = run.rel
                  \/ Unpacked(run) /\ b > run.rel
Packed(run) == \A b \in Names : b # 1 => dump[b].form = "gz" \/ InHand(run, b)
\* "ls -t" and "ls -r" agree, but for a release a rollback has touched and will delete.
NamesInOrder(run) ==
  \A r, s \in Names :
    (Picked(run) => r <= run.rel /\ s <= run.rel) => (s \in newer[DbHost][r] <=> s > r)

FitsOf(run) == /\ Settled(run) /\ DeployFits(run) /\ RollbackFits(run)
               /\ DumpsFit /\ Packed(run) /\ NamesInOrder(run)
Fits == \A o \in Operators : FitsOf(DbRun(runs[o]))

\* What becomes of the releases S of a server when it does the step a run is at.
Turned(run, S) == CASE run.at = "copy" -> S \cup {run.rel}
                    [] run.at = "cleanup" -> Kept(S)
                    [] run.at = "archive" -> S \ (Newest(S) \ {run.rel})
                    [] OTHER -> S
Reached(run, h, S) == IF run.status = "running" /\ h \notin run.todo THEN Turned(run, S) ELSE S
\* All servers had the releases S when the run came to its step.
AgreeOn(run, S) == \A h \in Hosts : releases[h] = Reached(run, h, S)
Agree == \A o \in Operators : \E S \in SUBSET Ids : AgreeOn(runs[o], S)
\* On the other servers "ls -t" is the order of the names.
OtherOrder == \A h \in Hosts \ {DbHost} : \A r, s \in releases[h] : s \in newer[h][r] <=> s > r

FitInv == UndoInv /\ TodoOk /\ Agree /\ OtherOrder /\ AllBoot /\ SourcesGrow /\ Fits

\* The types the steps below need.
LEMMA FitTypes ==
  ASSUME FitInv
  PROVE  /\ DoneInv /\ LiveInv /\ OkAtEnd
         /\ Names \subseteq Ids /\ Ids \subseteq Nat /\ DbHost \in Hosts /\ 1 \in Sites
         /\ releases \in [Hosts -> SUBSET Ids] /\ code \in [Hosts -> [Ids -> Tree]]
         /\ newer \in [Hosts -> [Ids -> SUBSET Ids]] /\ current \in [Hosts -> Ids]
         /\ dump \in [Ids -> Dump] /\ db \in [Sites -> Database]
         /\ cache \in [Hosts -> Tree] /\ staged \in Tree /\ head \in Nat
         /\ runs \in [Operators -> Run] /\ current[DbHost] \in Names
<1>1. UndoInv /\ DoneInv /\ LiveInv /\ TypeOK
  BY UndoTypes DEF FitInv, LiveInv, TypeInv
<1>2. Ids \subseteq Nat /\ Revs \subseteq Nat
  BY BoundAssumption DEF Ids, Revs
<1>3. DbHost \in Hosts /\ 1 \in Sites
  BY HostAssumption DEF Sites
<1> QED
  BY <1>1, <1>2, <1>3, UndoTypes DEF TypeOK, LiveInv, LiveReleaseExists, Names

\* Schemas and sources can be compared.
LEMMA FitNumbers ==
  ASSUME FitInv
  PROVE  /\ db[1].schema \in Nat /\ cache[DbHost].src \in Nat /\ staged.src \in Nat
         /\ \A r \in Ids : Src(r) \in Nat /\ dump[r].schema \in Nat
<1>1. Revs \subseteq Nat
  BY BoundAssumption DEF Revs
<1>2. db[1] \in Database /\ cache[DbHost] \in Tree /\ staged \in Tree
  BY FitTypes
<1>3. \A r \in Ids : code[DbHost][r] \in Tree /\ dump[r] \in Dump
  BY FitTypes
<1> QED
  BY <1>1, <1>2, <1>3 DEF Tree, Dump, Database, Src

\* The view of the database server differs from the run in the step only.
LEMMA DbRunFields ==
  ASSUME NEW run \in Run
  PROVE  /\ DbRun(run).cmd = run.cmd /\ DbRun(run).rel = run.rel /\ DbRun(run).last = run.last
         /\ DbRun(run).status = run.status
         /\ DbRun(run).at = IF run.status = "running" /\ DbHost \in HostsOf(run.at) \ run.todo
                            THEN After[run.cmd][run.at] ELSE run.at
         /\ ~(run.status = "running" /\ DbHost \in HostsOf(run.at) \ run.todo) => DbRun(run) = run
<1> PICK v : v = After[run.cmd][run.at]
  OBVIOUS
<1>1. CASE run.status = "running" /\ DbHost \in HostsOf(run.at) \ run.todo
  <2> PICK n : n = [run EXCEPT !.at = v]
    OBVIOUS
  <2>1. DbRun(run) = n
    BY <1>1 DEF DbRun
  <2>2. n.cmd = run.cmd /\ n.rel = run.rel /\ n.last = run.last /\ n.status = run.status /\ n.at = v
    BY DEF Run
  <2> QED
    BY <1>1, <2>1, <2>2
<1>2. CASE ~(run.status = "running" /\ DbHost \in HostsOf(run.at) \ run.todo)
  <2>1. DbRun(run) = run
    BY <1>2 DEF DbRun
  <2> QED
    BY <1>2, <2>1
<1> QED
  BY <1>1, <1>2

\* The database server does the step, or it has none and another is the last to do it:
\* it sees the run move on to n.
Steps(o, s, n) ==
  /\ Running(o) /\ runs[o].at = s /\ runs[o].cmd \in {"deploy", "rollback"}
  /\ s \in DOMAIN After[runs[o].cmd] /\ DbRun(runs[o]) = runs[o]
  /\ n.cmd = runs[o].cmd /\ n.at = After[runs[o].cmd][s] /\ Going(n)
  /\ s \notin {"newpath", "pick"} => n.rel = runs[o].rel
  /\ s # "gunzip" => n.last = runs[o].last
\* Another server does the step, and the database server sees no change.
Waits(o, s, n) ==
  /\ Going(DbRun(runs[o])) /\ Going(n)
  /\ n.cmd = DbRun(runs[o]).cmd /\ n.at = DbRun(runs[o]).at
  /\ s # "pick" => n.rel = DbRun(runs[o]).rel
  /\ n.last = DbRun(runs[o]).last

\* A step that is done is one or the other.
LEMMA DbMove ==
  ASSUME FitInv, [Next]_vars, NEW o \in Operators, NEW s, NEW h, Acts(o, s, h)
  PROVE  /\ s = runs[o].at
         /\ \E n : /\ n = DbRun(runs'[o])
                   /\ \/ Steps(o, s, n) /\ (h = DbHost \/ DbHost \notin HostsOf(s))
                      \/ Waits(o, s, n) /\ h # DbHost /\ h \in Hosts
<1>0. runs \in [Operators -> Run] /\ LiveInv /\ TodoOf(runs[o])
  BY FitTypes DEF FitInv, TodoOk
<1>1. s = runs[o].at /\ Moved(o, h)
  BY <1>0, ActsMove
<1> PICK old : old = runs[o]
  OBVIOUS
<1>2. /\ old \in Run /\ old.status = "running" /\ Running(o) /\ h \in old.todo /\ old.at = s
      /\ old.cmd \in {"deploy", "rollback"} /\ s \in DOMAIN After[old.cmd]
      /\ old.todo \subseteq HostsOf(s)
  BY <1>0, <1>1 DEF Moved, Running, TodoOf
<1> PICK new : /\ runs' = [runs EXCEPT ![o] = new]
               /\ new.cmd = old.cmd
               /\ s \notin {"newpath", "pick"} => new.rel = old.rel
               /\ s # "gunzip" => new.last = old.last
               /\ \/ /\ new.at = s /\ new.todo = old.todo \ {h} /\ new.todo # {} /\ new.status = "running"
                  \/ /\ new.at = After[old.cmd][s] /\ new.todo = HostsOf(new.at)
                     /\ old.todo \ {h} = {}
                     /\ new.status = IF new.at = "end" THEN "ok" ELSE "running"
  BY <1>1 DEF Moved
<1>3. runs'[o] = new /\ new \in Run
  <2>1. runs' \in [Operators -> Run]
    BY <1>0, TypeStep DEF LiveInv, TypeInv, TypeOK
  <2> QED
    BY <1>0, <2>1
<1> PICK n : n = DbRun(new)
  OBVIOUS
<1> PICK m : m = DbRun(old)
  OBVIOUS
<1>4. /\ n.cmd = new.cmd /\ n.rel = new.rel /\ n.last = new.last /\ n.status = new.status
      /\ n.at = IF new.status = "running" /\ DbHost \in HostsOf(new.at) \ new.todo
                THEN After[new.cmd][new.at] ELSE new.at
  BY <1>3, DbRunFields
<1>5. /\ m.cmd = old.cmd /\ m.rel = old.rel /\ m.last = old.last /\ m.status = old.status
      /\ m.at = IF DbHost \in HostsOf(s) \ old.todo THEN After[old.cmd][s] ELSE s
      /\ DbHost \notin HostsOf(s) \ old.todo => m = old
  BY <1>2, DbRunFields
<1>6. Going(m) /\ Going(n)
  BY <1>2, <1>4, <1>5 DEF Going
<1>n. After[old.cmd][s] # s
  <2>1. Place[old.cmd][After[old.cmd][s]] = Place[old.cmd][s] + 1 /\ Place[old.cmd][s] \in Nat
    BY <1>2, PlaceNext
  <2> QED
    BY <2>1
<1>7. CASE h = DbHost
  <2>1. DbHost \in HostsOf(s) /\ m = old
    BY <1>2, <1>5, <1>7
  <2>2. n.at = After[old.cmd][s]
    BY <1>2, <1>4, <1>7, <2>1
  <2> QED
    BY <1>1, <1>2, <1>3, <1>4, <1>6, <1>7, <2>1, <2>2 DEF Steps
<1>8. CASE h # DbHost /\ (DbHost \in HostsOf(s) \/ new.at = s)
  <2>1. n.at = m.at
    <3>1. CASE new.at = s /\ new.status = "running" /\ new.todo = old.todo \ {h}
      BY <1>4, <1>5, <1>8, <3>1
    <3>2. CASE /\ new.at = After[old.cmd][s] /\ new.todo = HostsOf(new.at) /\ old.todo \ {h} = {}
               /\ new.at # s
      <4>1. DbHost \in HostsOf(s) \ old.todo
        BY <1>8, <3>2
      <4> QED
        BY <1>4, <1>5, <3>2, <4>1
    <3> QED
      BY <1>n, <3>1, <3>2
  <2>2. h \in Hosts /\ s \notin {"newpath", "gunzip"}
    <3>1. HostsOf(s) \subseteq Hosts \cup {Deployer}
      BY HostsOfType
    <3>2. HostsOf(s) # {Deployer} /\ HostsOf(s) # {DbHost}
      <4>1. DbHost # Deployer
        BY HostAssumption
      <4> QED
        BY <1>n, <1>2, <1>8, <4>1
    <3>3. s \notin {"newpath", "stage", "build", "gunzip"}
      BY <3>2 DEF HostsOf
    <3>4. Deployer \notin HostsOf(s)
      BY <3>3, HostAssumption DEF HostsOf
    <3> QED
      BY <1>2, <3>1, <3>3, <3>4
  <2> QED
    BY <1>1, <1>2, <1>3, <1>4, <1>5, <1>6, <1>8, <2>1, <2>2 DEF Waits
<1>9. CASE h # DbHost /\ DbHost \notin HostsOf(s) /\ new.at # s
  <2>1. m = old /\ n.at = new.at /\ new.at = After[old.cmd][s]
    BY <1>4, <1>5, <1>9
  <2> QED
    BY <1>1, <1>2, <1>3, <1>4, <1>6, <1>9, <2>1 DEF Steps
<1> QED
  BY <1>7, <1>8, <1>9

\* What stops a run before its end.
Stops(o) == \/ Refuse(o) \/ Abort(o)
            \/ \E h \in Hosts : CopyBreaks(o, h) \/ (Settings(o, h) /\ ~HasStageFile(h))

\* What a step does to the runs.
LEMMA RunWays ==
  ASSUME [Next]_vars
  PROVE  \/ runs' = runs
         \/ \E o \in Operators, c \in Commands : Start(o, c)
         \/ \E o \in Operators : Stop(o) /\ Running(o) /\ Stops(o)
         \/ \E o \in Operators : \E s, h : Acts(o, s, h)
<1>2. ASSUME NEW o \in Operators, LocalStep(o) PROVE \E s, h : Acts(o, s, h)
  BY <1>2 DEF LocalStep, Acts
<1>3. ASSUME NEW o \in Operators, DbStep(o)
      PROVE  runs' = runs \/ \E s, h : Acts(o, s, h)
  BY <1>3 DEF DbStep, Acts, UpdateHook
<1>4. ASSUME NEW o \in Operators, NEW h \in Hosts, HostStep(o, h)
      PROVE  runs' = runs \/ (Stop(o) /\ Running(o) /\ Stops(o)) \/ \E s : Acts(o, s, h)
  BY <1>4 DEF HostStep, Acts, CopyBreaks, Settings, RemoveWeb, Stops, At
<1>5. ASSUME NEW o \in Operators, Refuse(o) \/ Abort(o) PROVE Stop(o) /\ Running(o) /\ Stops(o)
  BY <1>5 DEF Refuse, Abort, Stops
<1>6. ASSUME \/ Push \/ (\E s \in Sites : Edit(s)) \/ (\E v \in VarnishHosts : View(v))
             \/ UNCHANGED vars
      PROVE  runs' = runs
  BY <1>6 DEF Push, Edit, View, vars
<1> QED
  BY <1>2, <1>3, <1>4, <1>5, <1>6 DEF Next, Step

\* A step of a plan is done by somebody.
LEMMA SomeHosts ==
  ASSUME NEW c \in {"deploy", "rollback"}, NEW s \in DOMAIN After[c]
  PROVE  HostsOf(s) # {}
<1>1. Hosts # {} /\ AppHosts # {} /\ WebHosts # {}
  BY HostAssumption
<1>2. CASE c = "deploy"
  BY <1>1, <1>2 DEF After, HostsOf
<1>3. CASE c = "rollback"
  BY <1>1, <1>3 DEF After, HostsOf
<1> QED
  BY <1>2, <1>3

\* TodoOk is kept.
LEMMA TodoStep ==
  ASSUME FitInv, TakeTurns, [Next]_vars
  PROVE  TodoOk'
<1>0. runs \in [Operators -> Run] /\ LiveInv /\ TodoOk
  BY FitTypes DEF FitInv
<1>1. CASE runs' = runs
  BY <1>0, <1>1 DEF TodoOk, TodoOf
<1>2. ASSUME NEW o \in Operators, NEW n, runs' = [runs EXCEPT ![o] = n], TodoOf(n)
      PROVE  TodoOk'
  BY <1>0, <1>2 DEF TodoOk, TodoOf
<1>3. ASSUME NEW o \in Operators, Stop(o) PROVE TodoOk'
  <2> PICK n : n = [IdleRun EXCEPT !.status = "failed"]
    OBVIOUS
  <2>1. n.status = "failed"
    BY DEF IdleRun
  <2> QED
    BY <1>2, <1>3, <2>1 DEF Stop, TodoOf
<1>4. ASSUME NEW o \in Operators, NEW c \in Commands, Start(o, c) PROVE TodoOk'
  <2> PICK n : n = [cmd |-> c, at |-> First[c], todo |-> HostsOf(First[c]),
                    rel |-> NoId, last |-> NoId, status |-> "running"]
    OBVIOUS
  <2>1. n.at = First[c] /\ n.todo = HostsOf(First[c])
    OBVIOUS
  <2>2. c \in {"deploy", "rollback"} /\ First[c] \in DOMAIN After[c]
    BY CommandAssumption, PlanSteps DEF TakeTurns, CommandNames
  <2>3. HostsOf(First[c]) # {}
    BY <2>2, SomeHosts
  <2> QED
    BY <1>2, <1>4, <2>1, <2>3 DEF Start, TodoOf
<1>5. ASSUME NEW o \in Operators, NEW s, NEW h, Acts(o, s, h) PROVE TodoOk'
  <2>1. Moved(o, h)
    BY <1>0, <1>5, ActsMove
  <2> PICK n : /\ runs' = [runs EXCEPT ![o] = n] /\ n.cmd = runs[o].cmd
               /\ \/ /\ n.at = runs[o].at /\ n.todo = runs[o].todo \ {h} /\ n.todo # {}
                  \/ /\ n.at = After[runs[o].cmd][runs[o].at] /\ n.todo = HostsOf(n.at)
                     /\ n.status = IF n.at = "end" THEN "ok" ELSE "running"
    BY <2>1 DEF Moved
  <2>2. /\ runs[o].cmd \in {"deploy", "rollback"} /\ runs[o].at \in DOMAIN After[runs[o].cmd]
        /\ TodoOf(runs[o]) /\ runs[o].status = "running"
    BY <1>0, <2>1 DEF Moved, TodoOk, Running
  <2>3. CASE n.at = runs[o].at /\ n.todo = runs[o].todo \ {h} /\ n.todo # {}
    <3>1. TodoOf(n)
      BY <2>2, <2>3 DEF TodoOf
    <3> QED
      BY <1>2, <3>1
  <2>4. CASE /\ n.at = After[runs[o].cmd][runs[o].at] /\ n.todo = HostsOf(n.at)
             /\ n.status = IF n.at = "end" THEN "ok" ELSE "running"
    <3>1. n.at # "end" => n.at \in DOMAIN After[n.cmd]
      BY <2>2, <2>4, AfterInPlan DEF CommandNames
    <3>2. TodoOf(n)
      BY <2>2, <2>4, <3>1, SomeHosts DEF TodoOf
    <3> QED
      BY <1>2, <3>2
  <2> QED
    BY <2>3, <2>4
<1> QED
  BY <1>1, <1>3, <1>4, <1>5, RunWays

(***************************************************************************)
(* What the servers keep.                                                  *)
(***************************************************************************)
\* A step that deletes leaves the rest of the directory, and the other servers, as is.
LEMMA Deleted ==
  ASSUME FitInv, NEW h \in Hosts, NEW gone, Remove(h, gone)
  PROVE  /\ releases'[h] = releases[h] \ gone
         /\ \A r \in releases[h] \ gone : /\ code'[h][r] = code[h][r]
                                          /\ newer'[h][r] = newer[h][r] \ gone
         /\ \A g \in Hosts \ {h} : /\ releases'[g] = releases[g]
                                   /\ code'[g] = code[g] /\ newer'[g] = newer[g]
         /\ h # DbHost => dump' = dump
         /\ h = DbHost => \A r \in Ids \ gone : dump'[r] = dump[r]
<1>1. releases[h] \subseteq Ids
  BY FitTypes
<1> QED
  BY <1>1, FitTypes DEF Remove

\* On the database server.
LEMMA DbDeleted ==
  ASSUME FitInv, NEW gone, Remove(DbHost, gone)
  PROVE  /\ Names' = Names \ gone
         /\ \A r \in Names \ gone : code'[DbHost][r] = code[DbHost][r] /\ Src(r)' = Src(r)
         /\ \A r \in Names \ gone : dump'[r] = dump[r]
         /\ \A r \in Names \ gone : newer'[DbHost][r] = newer[DbHost][r] \ gone
<1>1. DbHost \in Hosts /\ Names \subseteq Ids
  BY FitTypes
<1> QED
  BY <1>1, Deleted DEF Names, Src

\* Copying the cache makes a new release of it, the newest by name and by time, and
\* changes no other.
LEMMA Copied ==
  ASSUME FitInv, NEW o \in Operators, NEW h \in Hosts, Copy(o, h)
  PROVE  /\ runs[o].rel \in Ids /\ runs[o].rel \notin releases[h]
         /\ releases'[h] = releases[h] \cup {runs[o].rel}
         /\ \A a \in releases[h] : a < runs[o].rel
         /\ code'[h][runs[o].rel] = cache[h]
         /\ \A r \in releases[h] : code'[h][r] = code[h][r]
         /\ newer'[h][runs[o].rel] = {}
         /\ \A r \in releases[h] : newer'[h][r] = newer[h][r] \cup {runs[o].rel}
         /\ \A g \in Hosts \ {h} : /\ releases'[g] = releases[g]
                                   /\ code'[g] = code[g] /\ newer'[g] = newer[g]
<1>2. runs[o].rel \in Ids /\ runs[o].rel \notin releases[h]
  BY PutsFresh DEF Puts, FitInv
<1>3. PutRelease(h, runs[o].rel, cache[h])
  BY DEF Copy
<1>4. /\ releases' = [releases EXCEPT ![h] = @ \cup {runs[o].rel}]
      /\ code' = [code EXCEPT ![h][runs[o].rel] = cache[h]]
      /\ Touch(h, runs[o].rel)
  BY <1>3 DEF PutRelease
<1>5. releases'[h] = releases[h] \cup {runs[o].rel}
  BY <1>4, FitTypes
<1>6. /\ code'[h][runs[o].rel] = cache[h]
      /\ \A r \in releases[h] : code'[h][r] = code[h][r]
  <2>1. code'[h] = [code[h] EXCEPT ![runs[o].rel] = cache[h]]
    BY <1>4, FitTypes
  <2>2. code[h] \in [Ids -> Tree] /\ releases[h] \subseteq Ids
    BY FitTypes
  <2> QED
    BY <1>2, <2>1, <2>2
<1>7. /\ newer'[h][runs[o].rel] = {}
      /\ \A r \in releases[h] : newer'[h][r] = newer[h][r] \cup {runs[o].rel}
  <2>1. newer'[h] = [s \in Ids |->
              IF s = runs[o].rel THEN {} ELSE IF s \in releases[h] THEN newer[h][s] \cup {runs[o].rel}
              ELSE {}]
    BY <1>4, FitTypes DEF Touch
  <2>2. releases[h] \subseteq Ids
    BY FitTypes
  <2> QED
    BY <1>2, <2>1, <2>2
<1>8. \A g \in Hosts \ {h} : /\ releases'[g] = releases[g]
                             /\ code'[g] = code[g] /\ newer'[g] = newer[g]
  BY <1>4, FitTypes DEF Touch
<1>9. \A a \in releases[h] : a < runs[o].rel
  <2>1. At(o, "copy", h)
    BY DEF Copy
  <2>2. LiveInv /\ Running(o) /\ runs[o].at = "copy"
    BY <2>1, FitTypes DEF At
  <2>3. runs[o].cmd = "deploy"
    <3>1. runs[o].cmd \in {"deploy", "rollback"} /\ runs[o].at \in DOMAIN After[runs[o].cmd]
      BY <2>2 DEF LiveInv, RunsLive, RunLive, TypeInv, RunsOk, RunOk, Running
    <3> QED
      BY <2>2, <3>1, DeployOnly
  <2>4. runs[o].rel = lastId /\ \A a \in releases[h] : a <= lastId
    BY <2>2, <2>3 DEF LiveInv, RunsLive, RunLive, NamesGiven
  <2> SUFFICES ASSUME NEW a \in releases[h] PROVE a < runs[o].rel
    OBVIOUS
  <2>5. a \in Nat /\ runs[o].rel \in Nat /\ a <= runs[o].rel /\ a # runs[o].rel
    BY <1>2, <2>4, FitTypes
  <2> QED
    BY <2>5
<1> QED
  BY <1>2, <1>5, <1>6, <1>7, <1>8, <1>9

\* Which failures are left out.
LEMMA NotFailing ==
  ASSUME NothingFails
  PROVE  /\ "abort" \notin Faults /\ "copy" \notin Faults /\ "push" \notin Faults
BY DEF NothingFails

\* The release directories of a server change as its step says.
LEMMA ServerTurns ==
  ASSUME FitInv, NEW o \in Operators, NEW h \in Hosts, Copy(o, h) \/ Deletes(o, h)
  PROVE  /\ releases'[h] = Turned(runs[o], releases[h])
         /\ \A g \in Hosts \ {h} : releases'[g] = releases[g]
         /\ Acts(o, runs[o].at, h) /\ runs[o].at \in {"copy", "cleanup", "archive"}
<1>1. CASE Copy(o, h)
  <2>1. runs[o].at = "copy"
    BY <1>1 DEF Copy, At
  <2> QED
    BY <1>1, <2>1, Copied DEF Turned, Acts
<1>2. CASE Cleanup(o, h)
  <2>1. runs[o].at = "cleanup" /\ Remove(h, releases[h] \ Kept(releases[h]))
    BY <1>2 DEF Cleanup, At
  <2>2. Kept(releases[h]) \subseteq releases[h]
    BY DEF Kept
  <2> PICK gone : gone = releases[h] \ Kept(releases[h])
    OBVIOUS
  <2>3. releases'[h] = releases[h] \ gone /\ \A g \in Hosts \ {h} : releases'[g] = releases[g]
    BY <2>1, Deleted
  <2> QED
    BY <1>2, <2>1, <2>2, <2>3 DEF Turned, Acts
<1>3. CASE Archive(o, h)
  <2>1. runs[o].at = "archive" /\ Remove(h, Newest(releases[h]) \ {current[h]}) /\ Running(o)
    BY <1>3 DEF Archive, At
  <2>2. current[h] = runs[o].rel
    <3>1. runs[o].cmd \in {"deploy", "rollback"} /\ runs[o].at \in DOMAIN Place[runs[o].cmd]
      BY <2>1, FitTypes, DidPlace DEF Running
    <3>2. Did(runs[o], "link", h)
      BY <2>1, <3>1, DoneAt DEF Published, Running
    <3> QED
      BY <3>2, FitTypes DEF DoneInv, LinkDone
  <2> PICK gone : gone = Newest(releases[h]) \ {current[h]}
    OBVIOUS
  <2>3. releases'[h] = releases[h] \ gone /\ \A g \in Hosts \ {h} : releases'[g] = releases[g]
    BY <2>1, Deleted
  <2> QED
    BY <1>3, <2>1, <2>2, <2>3 DEF Turned, Acts
<1> QED
  BY <1>1, <1>2, <1>3 DEF Deletes

\* A run that begins or leaves a step at which servers do not change has seen none change.
LEMMA SameTurn ==
  ASSUME NEW run, NEW S, run.status = "running" => run.at \notin {"copy", "cleanup", "archive"}
  PROVE  \A h \in Hosts : Reached(run, h, S) = S
BY DEF Reached, Turned

\* No run stops while the servers differ.
LEMMA StopsEven ==
  ASSUME FitInv, NothingFails, NEW o \in Operators, Running(o), Stops(o)
  PROVE  runs[o].at \notin {"copy", "cleanup", "archive"}
<1>1. \A h \in Hosts : releases[h] # {}
  BY FitTypes DEF LiveInv, LiveReleaseExists
<1>2. runs[o].at = "archive" => runs[o].todo \subseteq Hosts
  BY DEF FitInv, TodoOk, TodoOf, HostsOf, Running
<1>3. CASE Refuse(o)
  BY <1>1, <1>2, <1>3 DEF Refuse, Refused
<1>4. CASE \E h \in Hosts : Settings(o, h)
  BY <1>4 DEF Settings, At
<1> QED
  BY <1>3, <1>4, NotFailing DEF Stops, Abort, CopyBreaks

\* Agree is kept.
LEMMA AgreeStep ==
  ASSUME FitInv, OneOperator, TakeTurns, NothingFails, [Next]_vars
  PROVE  Agree'
<1>0. runs \in [Operators -> Run] /\ releases \in [Hosts -> SUBSET Ids] /\ LiveInv
  BY FitTypes
<1>1. ASSUME NEW o \in Operators, NEW n, NEW S \in SUBSET Ids, runs' = [runs EXCEPT ![o] = n],
             \A h \in Hosts : releases'[h] = Reached(n, h, S)
      PROVE  Agree'
  <2>1. \A p \in Operators : runs'[p] = n
    BY <1>0, <1>1 DEF OneOperator
  <2>2. AgreeOn(n, S)'
    BY <1>1 DEF AgreeOn, Reached, Turned
  <2>3. \A p \in Operators : AgreeOn(runs[p], S)'
    BY <2>1, <2>2 DEF AgreeOn, Reached, Turned
  <2> QED
    BY <1>1, <2>3 DEF Agree
<1>2. ASSUME NEW o \in Operators, NEW s, NEW h, Acts(o, s, h)
      PROVE  /\ s = runs[o].at /\ runs[o].status = "running" /\ h \in runs[o].todo
             /\ runs[o].cmd \in {"deploy", "rollback"} /\ s \in DOMAIN After[runs[o].cmd]
             /\ \E n : /\ runs' = [runs EXCEPT ![o] = n]
                       /\ s \notin {"newpath", "pick"} => n.rel = runs[o].rel
                       /\ \/ n.at = s /\ n.todo = runs[o].todo \ {h} /\ n.status = "running"
                          \/ /\ n.at = After[runs[o].cmd][s] /\ n.todo = HostsOf(n.at)
                             /\ runs[o].todo \ {h} = {}
  BY <1>0, <1>2, ActsMove DEF Moved, Running
<1>3. ASSUME NEW o \in Operators, NEW h \in Hosts, Copy(o, h) \/ Deletes(o, h)
      PROVE  Agree'
  <2> PICK run : run = runs[o]
    OBVIOUS
  <2> PICK s : s = run.at
    OBVIOUS
  <2>1. /\ releases'[h] = Turned(run, releases[h]) /\ \A g \in Hosts \ {h} : releases'[g] = releases[g]
        /\ Acts(o, s, h) /\ s \in {"copy", "cleanup", "archive"}
    BY <1>3, ServerTurns
  <2>2. /\ run.status = "running" /\ h \in run.todo
        /\ run.cmd \in {"deploy", "rollback"} /\ s \in DOMAIN After[run.cmd]
    BY <1>2, <2>1
  <2> PICK n : /\ runs' = [runs EXCEPT ![o] = n] /\ n.rel = run.rel
               /\ \/ n.at = s /\ n.todo = run.todo \ {h} /\ n.status = "running"
                  \/ n.at = After[run.cmd][s] /\ run.todo \ {h} = {}
    BY <1>2, <2>1
  <2> PICK S \in SUBSET Ids : AgreeOn(run, S)
    BY DEF FitInv, Agree
  <2>3. \A g \in Hosts : releases[g] = IF g \notin run.todo THEN Turned(run, S) ELSE S
    BY <2>2 DEF AgreeOn, Reached
  <2>4. \A g \in Hosts : releases'[g] = IF g \notin run.todo \ {h} THEN Turned(run, S) ELSE S
    BY <2>1, <2>2, <2>3
  <2>5. CASE n.at = s /\ n.todo = run.todo \ {h} /\ n.status = "running"
    <3>1. Turned(n, S) = Turned(run, S)
      BY <2>5 DEF Turned
    <3>2. \A g \in Hosts : releases'[g] = Reached(n, g, S)
      BY <2>4, <2>5, <3>1 DEF Reached
    <3> QED
      BY <1>1, <3>2
  <2>6. CASE n.at = After[run.cmd][s] /\ run.todo \ {h} = {}
    <3> PICK T : T = Turned(run, S)
      OBVIOUS
    <3>1. n.at \in {"dump", "end"}
      BY <2>1, <2>2, <2>6 DEF After
    <3>2. \A g \in Hosts : Reached(n, g, T) = T
      BY <3>1, SameTurn
    <3>3. \A g \in Hosts : releases'[g] = T
      BY <2>4, <2>6
    <3>4. T \in SUBSET Ids
      <4>1. releases' \in [Hosts -> SUBSET Ids]
        BY <1>0, TypeStep DEF LiveInv, TypeInv, TypeOK
      <4> QED
        BY <3>3, <4>1
    <3>5. \A g \in Hosts : releases'[g] = Reached(n, g, T)
      BY <3>2, <3>3
    <3> QED
      BY <1>1, <3>4, <3>5
  <2> QED
    BY <2>5, <2>6
<1>4. ASSUME releases' = releases,
             \A o \in Operators, h \in Hosts : ~Copy(o, h) /\ ~Deletes(o, h)
      PROVE  Agree'
  <2>1. CASE runs' = runs
    BY <1>4, <2>1 DEF FitInv, Agree, AgreeOn, Reached
  <2>2. ASSUME NEW o \in Operators, NEW n, runs' = [runs EXCEPT ![o] = n],
               Running(o) => runs[o].at \notin {"copy", "cleanup", "archive"},
               \/ n.status # "running" \/ n.at \notin {"copy", "cleanup", "archive"}
               \/ n.todo = Hosts
        PROVE  Agree'
    <3> PICK S \in SUBSET Ids : AgreeOn(runs[o], S)
      BY DEF FitInv, Agree
    <3>1. \A h \in Hosts : releases[h] = S
      BY <2>2, SameTurn DEF AgreeOn, Running
    <3>2. \A h \in Hosts : Reached(n, h, S) = S
      BY <2>2, SameTurn DEF Reached
    <3> QED
      BY <1>1, <1>4, <2>2, <3>1, <3>2
  <2>3. ASSUME NEW o \in Operators, Stop(o), Running(o), Stops(o) PROVE Agree'
    <3> PICK n : n = [IdleRun EXCEPT !.status = "failed"]
      OBVIOUS
    <3>1. n.status # "running"
      BY DEF IdleRun
    <3> QED
      BY <2>2, <2>3, <3>1, StopsEven DEF Stop
  <2>4. ASSUME NEW o \in Operators, NEW c \in Commands, Start(o, c) PROVE Agree'
    <3> PICK n : n = [cmd |-> c, at |-> First[c], todo |-> HostsOf(First[c]),
                      rel |-> NoId, last |-> NoId, status |-> "running"]
      OBVIOUS
    <3>1. n.at = First[c]
      OBVIOUS
    <3>2. c \in {"deploy", "rollback"}
      BY CommandAssumption DEF TakeTurns, CommandNames
    <3>3. n.at \notin {"copy", "cleanup", "archive"}
      BY <3>1, <3>2 DEF First
    <3> QED
      BY <2>2, <2>4, <3>3 DEF Start
  <2>5. ASSUME NEW o \in Operators, NEW s, NEW h, Acts(o, s, h) PROVE Agree'
    <3> PICK run : run = runs[o]
      OBVIOUS
    <3>1. s \notin {"copy", "cleanup", "archive"}
      BY <1>4, <2>5 DEF Acts, Deletes
    <3>2. PICK n : /\ runs' = [runs EXCEPT ![o] = n]
                   /\ n.at = s \/ (n.at = After[run.cmd][s] /\ n.todo = HostsOf(n.at))
      BY <1>2, <2>5
    <3>3. n.at \in {"copy", "cleanup", "archive"} => n.todo = Hosts
      BY <3>1, <3>2 DEF HostsOf
    <3>4. s = runs[o].at
      BY <1>2, <2>5
    <3> QED
      BY <2>2, <3>1, <3>2, <3>3, <3>4
  <2> QED
    BY <2>1, <2>3, <2>4, <2>5, RunWays
<1> QED
  BY <1>3, <1>4, NotFailing, WhoChangesDisk DEF Puts, CopyBreaks

\* OtherOrder is kept.
LEMMA OtherOrderStep ==
  ASSUME FitInv, NothingFails, [Next]_vars
  PROVE  OtherOrder'
<1> SUFFICES ASSUME NEW h \in Hosts \ {DbHost}, NEW r \in releases'[h], NEW s \in releases'[h]
             PROVE  s \in newer'[h][r] <=> s > r
  BY DEF OtherOrder
<1>0. \A a, b \in releases[h] : b \in newer[h][a] <=> b > a
  BY DEF FitInv, OtherOrder
<1>1. ASSUME NEW o \in Operators, NEW g \in Hosts, Copy(o, g)
      PROVE  s \in newer'[h][r] <=> s > r
  <2>1. CASE g # h
    BY <1>0, <1>1, <2>1, Copied
  <2>2. CASE g = h
    <3> PICK rel : rel = runs[o].rel
      OBVIOUS
    <3>1. /\ rel \in Ids /\ rel \notin releases[h] /\ releases'[h] = releases[h] \cup {rel}
          /\ \A a \in releases[h] : a < rel
          /\ newer'[h][rel] = {} /\ \A a \in releases[h] : newer'[h][a] = newer[h][a] \cup {rel}
      BY <1>1, <2>2, Copied
    <3>2. r \in Nat /\ s \in Nat /\ rel \in Nat
      BY <3>1, FitTypes
    <3>3. CASE r = rel
      <4>1. ~(s > rel)
        BY <3>1, <3>2
      <4> QED
        BY <3>1, <3>3, <4>1
    <3>4. CASE r # rel /\ s = rel
      BY <3>1, <3>2, <3>4
    <3>5. CASE r # rel /\ s # rel
      BY <1>0, <3>1, <3>5
    <3> QED
      BY <3>3, <3>4, <3>5
  <2> QED
    BY <2>1, <2>2
<1>2. ASSUME NEW o \in Operators, NEW g \in Hosts, Deletes(o, g)
      PROVE  s \in newer'[h][r] <=> s > r
  <2> PICK gone : Remove(g, gone)
    BY <1>2 DEF Deletes, Cleanup, Archive
  <2>1. CASE g # h
    BY <1>0, <2>1, Deleted
  <2>2. CASE g = h
    <3>1. releases'[h] = releases[h] \ gone
          /\ \A a \in releases[h] \ gone : newer'[h][a] = newer[h][a] \ gone
      BY <2>2, Deleted
    <3> QED
      BY <1>0, <3>1
  <2> QED
    BY <2>1, <2>2
<1>3. ASSUME NEW o \in Operators, DumpTaken(o) \/ Gunzip(o)
      PROVE  newer'[h] = newer[h] /\ releases'[h] = releases[h]
  BY <1>3, FitTypes DEF DumpTaken, Gunzip, Touch
<1>4. CASE \E o \in Operators, g \in Hosts : Puts(o, g) \/ Deletes(o, g)
  BY <1>1, <1>2, <1>4, NotFailing DEF Puts, CopyBreaks
<1>5. CASE ~\E o \in Operators, g \in Hosts : Puts(o, g) \/ Deletes(o, g)
  <2>1. newer'[h] = newer[h] /\ releases'[h] = releases[h]
    BY <1>3, <1>5, WhoChangesDisk
  <2> QED
    BY <1>0, <2>1
<1> QED
  BY <1>4, <1>5

\* AllBoot and SourcesGrow are kept.
LEMMA TreesStep ==
  ASSUME FitInv, NothingFails, [Next]_vars
  PROVE  AllBoot' /\ SourcesGrow'
<1>0. /\ AllBoot /\ SourcesGrow /\ staged \in Tree /\ cache \in [Hosts -> Tree]
      /\ DbHost \in Hosts /\ Names \subseteq Ids /\ head \in Nat
  BY FitTypes DEF FitInv
<1>n. /\ cache[DbHost].src \in Nat /\ staged.src \in Nat /\ \A r \in Names : Src(r) \in Nat
  BY <1>0, FitNumbers
<1>1. ASSUME NEW o \in Operators, Stage(o) \/ Build(o)
      PROVE  /\ staged'.boots /\ staged.src <= staged'.src /\ staged'.src <= head
             /\ UNCHANGED <<releases, code, cache, head>>
  <2>1. /\ UNCHANGED <<releases, code, cache, head>>
        /\ \/ staged' = [staged EXCEPT !.src = head]
           \/ staged' = staged
           \/ staged' = [staged EXCEPT !.built = staged.src]
    BY <1>1 DEF Stage, Build, diskVars
  <2>2. staged'.boots = staged.boots /\ staged'.src \in {staged.src, head}
    BY <1>0, <2>1 DEF Tree
  <2> QED
    BY <1>0, <1>n, <2>1, <2>2 DEF AllBoot, SourcesGrow
<1>2. ASSUME NEW o \in Operators, NEW h \in Hosts, Rsync(o, h)
      PROVE  /\ \A g \in Hosts : cache'[g] \in {cache[g], staged}
             /\ UNCHANGED <<releases, code, staged, head>>
  BY <1>0, <1>2, NotFailing DEF Rsync, diskVars
<1>3. ASSUME NEW o \in Operators, NEW h \in Hosts, Copy(o, h)
      PROVE  AllBoot' /\ SourcesGrow'
  <2>1. UNCHANGED <<staged, head, cache>>
    BY <1>3 DEF Copy, sourceVars
  <2> PICK rel : rel = runs[o].rel
    OBVIOUS
  <2>2. /\ releases'[h] = releases[h] \cup {rel} /\ code'[h][rel] = cache[h]
        /\ \A r \in releases[h] : code'[h][r] = code[h][r]
        /\ \A g \in Hosts \ {h} : releases'[g] = releases[g] /\ code'[g] = code[g]
    BY <1>3, Copied
  <2>3. \A g \in Hosts : \A r \in releases'[g] :
          code'[g][r] = cache[g] \/ (r \in releases[g] /\ code'[g][r] = code[g][r])
    BY <2>2
  <2>4. AllBoot'
    BY <1>0, <2>1, <2>3 DEF AllBoot
  <2>5. \A r \in Names' : Src(r)' <= cache[DbHost].src
    <3> SUFFICES ASSUME NEW r \in Names' PROVE code'[DbHost][r].src <= cache[DbHost].src
      BY DEF Src
    <3>1. \/ code'[DbHost][r] = cache[DbHost]
          \/ r \in Names /\ code'[DbHost][r] = code[DbHost][r]
      BY <1>0, <2>3 DEF Names
    <3> QED
      BY <1>0, <1>n, <3>1 DEF SourcesGrow, Src
  <2> QED
    BY <1>0, <2>1, <2>4, <2>5 DEF SourcesGrow
<1>4. ASSUME NEW o \in Operators, NEW h \in Hosts, Deletes(o, h)
      PROVE  AllBoot' /\ SourcesGrow'
  <2>1. UNCHANGED <<staged, head, cache>> /\ \E gone : Remove(h, gone)
    BY <1>4 DEF Deletes, Cleanup, Archive, sourceVars
  <2>2. \A g \in Hosts : \A r \in releases'[g] : r \in releases[g] /\ code'[g][r] = code[g][r]
    BY <2>1, Deleted
  <2>3. AllBoot'
    BY <1>0, <2>1, <2>2 DEF AllBoot
  <2> QED
    BY <1>0, <2>1, <2>2, <2>3 DEF SourcesGrow, Names, Src
<1>5. CASE \E o \in Operators, h \in Hosts : Puts(o, h) \/ Deletes(o, h)
  BY <1>3, <1>4, <1>5, NotFailing DEF Puts, CopyBreaks
<1>6. CASE releases' = releases /\ code' = code
  <2>1. Names' = Names /\ \A r \in Names' : Src(r)' = Src(r)
    BY <1>6 DEF Names, Src
  <2>2. /\ head' \in Nat /\ head <= head'
    BY <1>0, WhoChangesRest DEF Push
  <2>3. /\ staged'.boots /\ staged.src <= staged'.src /\ staged'.src <= head'
        /\ staged'.src \in Nat
    <3>1. CASE staged' = staged
      BY <1>0, <1>n, <2>2, <3>1 DEF AllBoot, SourcesGrow
    <3>2. CASE \E o \in Operators : Stage(o) \/ Build(o)
      <4>1. /\ staged'.boots /\ staged.src <= staged'.src /\ staged'.src <= head
            /\ head' = head
        BY <1>1, <3>2
      <4>2. staged'.src \in Nat
        <5>1. TypeInv'
          BY TypeStep, FitTypes DEF LiveInv
        <5> QED
          BY <5>1, BoundAssumption DEF TypeInv, TypeOK, Tree, Revs
      <4> QED
        BY <4>1, <4>2
    <3> QED
      BY <3>1, <3>2, WhoChangesRest
  <2>4. \A g \in Hosts : cache'[g].boots
    BY <1>0, <1>2, WhoChangesRest DEF AllBoot
  <2>5. /\ cache[DbHost].src <= cache'[DbHost].src
        /\ cache'[DbHost].src <= staged'.src /\ cache'[DbHost].src \in Nat
    <3>1. CASE cache' = cache
      BY <1>0, <1>n, <2>3, <3>1 DEF SourcesGrow
    <3>2. CASE \E o \in Operators, h \in Hosts : Rsync(o, h)
      <4>1. cache'[DbHost] \in {cache[DbHost], staged} /\ staged' = staged
        BY <1>0, <1>2, <3>2
      <4> QED
        BY <1>0, <1>n, <4>1 DEF SourcesGrow
    <3> QED
      BY <3>1, <3>2, WhoChangesRest
  <2>6. AllBoot'
    BY <1>0, <1>6, <2>3, <2>4 DEF AllBoot
  <2>7. \A r \in Names : Src(r) <= cache'[DbHost].src
    BY <1>0, <1>n, <2>5 DEF SourcesGrow
  <2>8. SourcesGrow'
    BY <2>1, <2>3, <2>5, <2>7 DEF SourcesGrow
  <2> QED
    BY <2>6, <2>8
<1> QED
  BY <1>5, <1>6, WhoChangesDisk

\* Every release of every server serves as a basis for Drush.
LEMMA Works ==
  ASSUME FitInv, OwnSettings, StagesShipped, NEW h \in Hosts
  PROVE  HasStageFile(h) /\ \A r \in releases[h] : SettingsWork(h, r)
<1>1. \A s \in releases[h] : code[h][s].boots /\ code[h][s].src \in Revs
  BY FitTypes DEF FitInv, AllBoot, Tree
<1>2. current[h] \in releases[h]
  BY FitTypes DEF LiveInv, LiveReleaseExists
<1>3. HasStageFile(h)
  BY <1>1, <1>2 DEF HasStageFile, StagesShipped
<1> QED
  BY <1>1, <1>3 DEF SettingsWork, OwnSettings

(***************************************************************************)
(* Runs that stop, begin, or go on without touching what Fits speaks of.   *)
(***************************************************************************)
\* A step of the database server alone is still to be done by it.
LEMMA OnDbHost ==
  ASSUME FitInv, NEW o \in Operators, Running(o),
         runs[o].at \in {"dump", "gunzip", "drop", "import", "updatedb"}
  PROVE  DbHost \in runs[o].todo /\ DbRun(runs[o]) = runs[o]
<1>1. runs[o].todo # {} /\ runs[o].todo \subseteq {DbHost}
  BY DEF FitInv, TodoOk, TodoOf, Running, HostsOf
<1>2. DbHost \in runs[o].todo
  BY <1>1
<1> QED
  BY <1>2 DEF DbRun

\* The servers have the same releases while no run adds or deletes any.
LEMMA SameNames ==
  ASSUME FitInv, NEW o \in Operators,
         Running(o) => runs[o].at \notin {"copy", "cleanup", "archive"}
  PROVE  \A h \in Hosts : releases[h] = Names
<1> PICK S \in SUBSET Ids : AgreeOn(runs[o], S)
  BY DEF FitInv, Agree
<1>1. \A h \in Hosts : releases[h] = S
  BY SameTurn DEF AgreeOn, Running
<1> QED
  BY <1>1, FitTypes DEF Names

\* A run that has put or picked a release is not refused.
LEMMA NoStop ==
  ASSUME FitInv, OwnSettings, StagesShipped, NEW o \in Operators,
         Put(DbRun(runs[o])) \/ Picked(DbRun(runs[o])), Running(o)
  PROVE  ~Refused(o)
<1> PICK run : run = runs[o]
  OBVIOUS
<1> PICK m : m = DbRun(runs[o])
  OBVIOUS
<1>0. /\ FitsOf(m) /\ DbHost \in Hosts /\ Names \subseteq Ids /\ Ids \subseteq Nat
      /\ current[DbHost] \in Names /\ (Put(m) \/ Picked(m))
  BY FitTypes DEF FitInv, Fits
<1>1. /\ m.cmd = run.cmd /\ m.rel = run.rel /\ m.last = run.last /\ m.status = "running"
      /\ run.status = "running"
  BY FitTypes, DbRunFields DEF Running
<1>2. run.rel \in Names
  BY <1>0, <1>1 DEF FitsOf, DeployFits, RollbackFits, Newest
<1>3. /\ SettingsWork(DbHost, run.rel) /\ SettingsWork(DbHost, current[DbHost])
      /\ \A r \in Names : SettingsWork(DbHost, r)
  <2>1. \A r \in Names : SettingsWork(DbHost, r)
    BY <1>0, Works DEF Names
  <2> QED
    BY <1>0, <1>2, <2>1
<1>4. run.at \in {"dump", "gunzip", "drop", "import", "updatedb"} =>
        DbHost \in run.todo /\ m = run
  BY OnDbHost
<1>5. run.at # "newpath"
  <2> SUFFICES ASSUME run.at = "newpath" PROVE FALSE
    OBVIOUS
  <2>1. run.cmd \in {"deploy", "rollback"} /\ run.at \in DOMAIN After[run.cmd]
    BY FitTypes, DidPlace DEF Running
  <2>2. m = run
    BY FitTypes, HostAssumption, DbRunFields DEF HostsOf
  <2> QED
    BY <1>0, <2>1, <2>2 DEF Put, Picked, PutSteps, After
<1>6. run.at = "gunzip" => \E r \in Newest(Names) : dump[r].form = "gz"
  <2> SUFFICES ASSUME run.at = "gunzip"
               PROVE  \E r \in Newest(Names) : dump[r].form = "gz"
    OBVIOUS
  <2>1. m.at = "gunzip" /\ Picked(m) /\ ~Unpacked(m) /\ ~Archived(m)
    BY <1>0, <1>4 DEF Put, Picked, PutSteps, Unpacked, Archived
  <2> QED
    BY <1>0, <2>1 DEF FitsOf, RollbackFits, Reverts
<1>7. run.at \in {"drop", "import"} => run.last \in Names /\ dump[run.last].form = "sql"
  <2> SUFFICES ASSUME run.at \in {"drop", "import"}
               PROVE  run.last \in Names /\ dump[run.last].form = "sql"
    OBVIOUS
  <2>1. m.at \in {"drop", "import"} /\ Picked(m) /\ Unpacked(m) /\ ~Archived(m)
    BY <1>0, <1>4 DEF Put, Picked, PutSteps, Unpacked, Archived
  <2> QED
    BY <1>0, <1>1, <2>1 DEF FitsOf, RollbackFits, Reverts, Newest
<1>8. run.at = "updatedb" => CanUpdate(o)
  <2> SUFFICES ASSUME run.at = "updatedb" PROVE CanUpdate(o)
    OBVIOUS
  <2>1. db[1].up
    BY <1>0, <1>4 DEF FitsOf, DeployFits, RollbackFits
  <2> QED
    BY <1>2, <1>3, <1>4, <2>1 DEF CanUpdate, At, Bootstraps, Names
<1>9. run.at \in {"aliases", "pick"} => \A h \in Hosts : releases[h] = Names
  BY SameNames
<1>10. run.at \in {"aliases", "pick", "archive"} => run.todo \subseteq Hosts
  BY <1>1 DEF FitInv, TodoOk, TodoOf, HostsOf
<1>11. run.at = "pick" => ~(Cardinality(Names) < 2)
  <2> SUFFICES ASSUME run.at = "pick" PROVE ~(Cardinality(Names) < 2)
    OBVIOUS
  <2>1. Picked(m) /\ ~Archived(m)
    <3>1. run.cmd \in {"deploy", "rollback"} /\ run.at \in DOMAIN After[run.cmd]
      BY FitTypes, DidPlace DEF Running
    <3>2. run.cmd = "rollback"
      BY <3>1 DEF After
    <3>3. m.at \in {"pick", "gunzip"}
      <4>1. After["rollback"]["pick"] = "gunzip"
        BY DEF After
      <4>2. m.at \in {run.at, After[run.cmd][run.at]}
        BY FitTypes, DbRunFields
      <4> QED
        BY <3>2, <4>1, <4>2
    <3> QED
      BY <1>0, <1>1, <3>2, <3>3 DEF Put, Picked, Archived
  <2>2. PICK n \in Newest(Names) : Reverts(m, n)
    BY <1>0, <2>1 DEF FitsOf, RollbackFits
  <2>3. n \in Names /\ m.rel \in Names /\ m.rel # n
    <3>1. n \in Names /\ m.rel \in Names /\ m.rel < n /\ n \in Nat
      BY <1>0, <2>2 DEF Reverts, Follows, Newest
    <3> QED
      BY <3>1
  <2>4. IsFiniteSet(Names)
    <3>1. IsFiniteSet(Ids)
      BY BoundAssumption, FS_Interval DEF Ids
    <3> QED
      BY <1>0, <3>1, FS_Subset
  <2>5. Cardinality(Names) \in Nat /\ Cardinality({m.rel, n}) <= Cardinality(Names)
        /\ Cardinality({m.rel, n}) = 2
    <3>1. {m.rel, n} \subseteq Names
      BY <2>3
    <3>2. Cardinality({m.rel, n}) = 2
      <4>1. IsFiniteSet({n}) /\ Cardinality({n}) = 1 /\ m.rel \notin {n}
        BY <2>3, FS_Singleton
      <4>2. Cardinality({n} \cup {m.rel}) = 2
        BY <4>1, FS_AddElement
      <4>3. {n} \cup {m.rel} = {m.rel, n}
        OBVIOUS
      <4> QED
        BY <4>2, <4>3
    <3> QED
      BY <2>4, <3>1, <3>2, FS_Subset, FS_CardinalityType
  <2> QED
    BY <2>5
<1>12. \A h \in Hosts : releases[h] # {}
  BY FitTypes DEF LiveInv, LiveReleaseExists
<1>13. ~(run.at = "dump" /\ (run.rel \notin releases[DbHost] \/ ~SettingsWork(DbHost, current[DbHost])))
  BY <1>2, <1>3 DEF Names
<1>14. ~(run.at = "gunzip" /\ \A r \in Newest(releases[DbHost]) : dump[r].form # "gz")
  BY <1>6 DEF Names
<1>15. ~(run.at = "drop" /\ ~SettingsWork(DbHost, run.last))
  BY <1>3, <1>7
<1>16. ~(run.at = "aliases" /\ \E h \in run.todo : run.rel \notin releases[h])
  BY <1>2, <1>9, <1>10
<1>17. ~(run.at = "pick" /\ \E h \in run.todo : Cardinality(releases[h]) < 2)
  BY <1>9, <1>10, <1>11
<1>18. ~(run.at = "archive" /\ \E h \in run.todo : releases[h] = {})
  BY <1>10, <1>12
<1> QED
  BY <1>5, <1>7, <1>8, <1>13, <1>14, <1>15, <1>16, <1>17, <1>18 DEF Refused

\* What Fits speaks of, when it does not change.
Unchanged == /\ releases'[DbHost] = releases[DbHost] /\ code'[DbHost] = code[DbHost]
             /\ newer'[DbHost] = newer[DbHost] /\ dump' = dump
             /\ db'[1].up = db[1].up /\ db'[1].schema = db[1].schema

\* A run that has ended, or has not put or picked a release, is as if there were none.
LEMMA RestFits ==
  ASSUME FitInv, NEW o \in Operators,
         ~Running(o) \/ (~Put(DbRun(runs[o])) /\ ~Picked(DbRun(runs[o]))),
         Unchanged, current'[DbHost] = current[DbHost], NEW n, ~Put(n), ~Picked(n)
  PROVE  FitsOf(n)'
<1> PICK run : run = DbRun(runs[o])
  OBVIOUS
<1>0. /\ FitsOf(run)
      /\ run.status # "running" \/ (~Put(run) /\ ~Picked(run))
      /\ ~Unpacked(n) /\ Names \subseteq Ids /\ Ids \subseteq Nat
      /\ run.status # "running" => run = runs[o]
  BY FitTypes, DbRunFields DEF FitInv, Fits, Running, Unpacked
<1>1. Put(run) \/ Picked(run) => run.at = "end" /\ current[DbHost] = run.rel
  <2> SUFFICES ASSUME Put(run) \/ Picked(run) PROVE run.at = "end" /\ current[DbHost] = run.rel
    OBVIOUS
  <2>1. run.status = "ok"
    BY <1>0 DEF Put, Picked, Going
  <2>2. run = runs[o] /\ run.at = "end" /\ run.cmd \in {"deploy", "rollback"}
    BY <1>0, <2>1, FitTypes DEF OkAtEnd
  <2>3. Did(run, "link", DbHost)
    BY <2>1, <2>2, DoneAt, HostAssumption DEF Published, Place
  <2> QED
    BY <2>2, <2>3, FitTypes DEF DoneInv, LinkDone
<1>2. /\ db[1].up /\ current[DbHost] \in Newest(Names)
      /\ \A r \in Newest(Names) : db[1].schema = Src(r)
  <2>1. \A r, s \in Newest(Names) : r = s
    <3>1. Names \subseteq Nat
      BY <1>0
    <3> QED
      BY <3>1 DEF Newest
  <2>2. CASE Put(run)
    BY <1>0, <1>1, <2>1, <2>2 DEF FitsOf, DeployFits, Updated
  <2>3. CASE Picked(run)
    BY <1>0, <1>1, <2>1, <2>3 DEF FitsOf, RollbackFits, Archived, Imported, Unpacked
  <2>4. CASE ~Put(run) /\ ~Picked(run)
    BY <1>0, <2>4 DEF FitsOf, Settled
  <2> QED
    BY <2>2, <2>3, <2>4
<1>3. Picked(run) => run.rel \in Names /\ \A r \in Names : r <= run.rel
  BY <1>0, <1>1 DEF FitsOf, RollbackFits, Archived, Newest
<1>4. \A b \in Names : ~InHand(run, b)
  <2>1. Put(run) => run.at # "dump"
    BY <1>1
  <2>2. ASSUME NEW b \in Names, Picked(run) PROVE ~(b > run.rel)
    <3>1. b \in Nat /\ run.rel \in Nat /\ b <= run.rel
      BY <1>0, <1>3, <2>2
    <3> QED
      BY <3>1
  <2> QED
    BY <2>1, <2>2 DEF InHand, Unpacked
<1>5. \A b \in Names : b # 1 => dump[b].form = "gz"
  BY <1>0, <1>4 DEF FitsOf, Packed
<1>6. \A r, s \in Names : s \in newer[DbHost][r] <=> s > r
  BY <1>0, <1>3 DEF FitsOf, NamesInOrder
<1>7. DumpsFit
  BY <1>0 DEF FitsOf
<1>8. Names' = Names /\ \A r : Src(r)' = Src(r)
  BY DEF Unchanged, Names, Src
<1>9. Settled(n)'
  BY <1>2, <1>8 DEF Settled, Unchanged
<1>10. DeployFits(n)' /\ RollbackFits(n)'
  BY DEF DeployFits, RollbackFits
<1>11. DumpsFit' /\ Packed(n)' /\ NamesInOrder(n)'
  BY <1>5, <1>6, <1>7, <1>8 DEF DumpsFit, Packed, NamesInOrder, Unchanged
<1> QED
  BY <1>9, <1>10, <1>11 DEF FitsOf

\* Fits is about the step and the releases of a run, and only when it has put or picked one.
LEMMA SameFits ==
  ASSUME NEW run, NEW n, FitsOf(run), n.cmd = run.cmd, n.at = run.at, n.last = run.last,
         Going(n) <=> Going(run), Put(run) \/ Picked(run) => n.rel = run.rel,
         Unchanged, current'[DbHost] = current[DbHost]
  PROVE  FitsOf(n)'
<1>1. /\ Put(n) <=> Put(run)
      /\ Picked(n) <=> Picked(run)
      /\ Updated(n) <=> Updated(run)
      /\ Unpacked(n) <=> Unpacked(run)
      /\ Imported(n) <=> Imported(run)
      /\ Archived(n) <=> Archived(run)
  BY DEF Put, Picked, Updated, Unpacked, Imported, Archived
<1>2. Names' = Names /\ \A r : Src(r)' = Src(r)
  BY DEF Unchanged, Names, Src
<1>3. Settled(n)'
  BY <1>1, <1>2 DEF FitsOf, Settled, Unchanged
<1>4. DeployFits(n)'
  BY <1>1, <1>2 DEF FitsOf, DeployFits, Unchanged
<1>5. RollbackFits(n)'
  BY <1>1, <1>2 DEF FitsOf, RollbackFits, Reverts, Unchanged
<1>6. \A b : InHand(n, b) <=> InHand(run, b)
  BY <1>1 DEF InHand, Unpacked
<1>7. DumpsFit' /\ Packed(n)' /\ NamesInOrder(n)'
  BY <1>1, <1>2, <1>6 DEF FitsOf, DumpsFit, Packed, NamesInOrder, Unchanged
<1> QED
  BY <1>3, <1>4, <1>5, <1>7 DEF FitsOf

\* The steps between which a run has come no further, as far as Fits can tell.
Linking == {"aliases", "link", "web", "settings", "updatedb"}
Closing == {"ban", "cleanup", "end"}
Returning == Linking \cup {"dump", "archive"}
Alike(run, n) ==
  /\ n.rel = run.rel /\ n.last = run.last
  /\ n.cmd = run.cmd /\ Going(run) /\ Going(n)
  /\ \/ run.cmd = "deploy" /\ run.at \in Linking /\ n.at \in Linking
     \/ run.cmd = "deploy" /\ run.at \in Closing /\ n.at \in Closing
     \/ run.cmd = "rollback" /\ run.at \in Returning /\ n.at \in Returning

\* A run that has come no further leaves Fits as it is.
LEMMA GoesOn ==
  ASSUME NEW run, NEW n, FitsOf(run), Alike(run, n), Unchanged
  PROVE  FitsOf(n)'
<1>0. /\ n.rel = run.rel /\ n.last = run.last /\ n.cmd = run.cmd /\ Going(run) /\ Going(n)
      /\ n.at # "import" /\ run.at # "import"
      /\ run.cmd = "deploy" => n.at # "dump" /\ run.at # "dump"
  BY DEF Alike, Linking, Closing, Returning
<1>1. /\ Put(run) \/ Picked(run)
      /\ Put(n) <=> Put(run)
      /\ Picked(n) <=> Picked(run)
      /\ Updated(n) <=> Updated(run)
      /\ Unpacked(n) <=> Unpacked(run)
      /\ Imported(n) <=> Imported(run)
      /\ Archived(n) <=> Archived(run)
  <2>1. CASE run.cmd = "deploy" /\ run.at \in Linking /\ n.at \in Linking
    BY <1>0, <2>1
    DEF Linking, Put, Picked, Updated, Unpacked, Imported, Archived, PutSteps
  <2>2. CASE run.cmd = "deploy" /\ run.at \in Closing /\ n.at \in Closing
    BY <1>0, <2>2
    DEF Closing, Put, Picked, Updated, Unpacked, Imported, Archived, PutSteps
  <2>3. CASE run.cmd = "rollback" /\ run.at \in Returning /\ n.at \in Returning
    <3>1. run.at \notin {"pick", "gunzip", "drop", "import", "end"}
          /\ n.at \notin {"pick", "gunzip", "drop", "import", "end"}
      BY <2>3 DEF Returning, Linking
    <3> QED
      BY <1>0, <2>3, <3>1 DEF Put, Picked, Updated, Unpacked, Imported, Archived
  <2> QED
    BY <2>1, <2>2, <2>3 DEF Alike
<1>2. Names' = Names /\ \A r : Src(r)' = Src(r)
  BY DEF Unchanged, Names, Src
<1>3. Settled(n)'
  BY <1>1 DEF Settled
<1>4. DeployFits(n)'
  <2>1. Put(n) => n.at # "dump" /\ run.at # "dump"
    BY <1>0 DEF Put
  <2> QED
    BY <1>0, <1>1, <1>2, <2>1 DEF FitsOf, DeployFits, Unchanged
<1>5. RollbackFits(n)'
  BY <1>0, <1>1, <1>2 DEF FitsOf, RollbackFits, Reverts, Unchanged
<1>6. \A b : InHand(n, b) <=> InHand(run, b)
  <2>1. Put(n) => n.at # "dump" /\ run.at # "dump"
    BY <1>0 DEF Put
  <2> QED
    BY <1>0, <1>1, <2>1 DEF InHand
<1>7. DumpsFit' /\ Packed(n)' /\ NamesInOrder(n)'
  BY <1>0, <1>1, <1>2, <1>6 DEF FitsOf, DumpsFit, Packed, NamesInOrder, Unchanged
<1> QED
  BY <1>3, <1>4, <1>5, <1>7 DEF FitsOf

\* With one operator, Fits is what it says of the run that moved.
LEMMA OnlyRunFits ==
  ASSUME OneOperator, NEW o \in Operators, NEW n, n = DbRun(runs'[o]), FitsOf(n)'
  PROVE  Fits'
<1>1. \A p \in Operators : DbRun(runs'[p]) = n
  BY DEF OneOperator
<1> QED
  BY <1>1 DEF Fits

\* The steps of a deploy before it copies leave no more than a run that idles.
LEMMA EarlyFits ==
  ASSUME FitInv, NEW o \in Operators,
         NEW s \in {"newpath", "stage", "build", "rsync"}, NEW n, Steps(o, s, n),
         Unchanged, current'[DbHost] = current[DbHost]
  PROVE  FitsOf(n)'
<1>1. runs[o].cmd = "deploy" /\ n.cmd = "deploy" /\ n.at \in {"stage", "build", "rsync", "copy"}
  BY DEF Steps, After
<1>2. ~Put(runs[o]) /\ ~Picked(runs[o]) /\ ~Put(n) /\ ~Picked(n)
  BY <1>1 DEF Put, Picked, PutSteps, Steps
<1>3. DbRun(runs[o]) = runs[o]
  BY DEF Steps
<1> QED
  BY <1>2, <1>3, RestFits

\* Publishing, banning, and a rollback that has nothing to dump or to update.
LEMMA LaterFits ==
  ASSUME FitInv, NEW o \in Operators,
         NEW s \in Linking \cup {"ban", "dump"},
         s \in {"dump", "updatedb"} => runs[o].cmd = "rollback",
         NEW n, Steps(o, s, n), Unchanged
  PROVE  FitsOf(n)'
<1> PICK run : run = runs[o]
  OBVIOUS
<1>0. /\ run.cmd \in {"deploy", "rollback"} /\ s \in DOMAIN After[run.cmd] /\ run.at = s
      /\ run.status = "running" /\ n.cmd = run.cmd /\ n.at = After[run.cmd][s]
      /\ Going(n) /\ n.rel = run.rel /\ n.last = run.last
  BY DEF Steps, Running, Linking
<1>1. Alike(run, n)
  <2>1. CASE run.cmd = "deploy"
    <3>1. \/ s \in Linking /\ n.at \in Linking
          \/ s \in Closing /\ n.at \in Closing
      BY <1>0, <2>1 DEF After, Linking, Closing
    <3> QED
      BY <1>0, <2>1, <3>1 DEF Alike, Going
  <2>2. CASE run.cmd = "rollback"
    <3>1. s \in Returning /\ n.at \in Returning
      BY <1>0, <2>2 DEF After, Linking, Returning
    <3> QED
      BY <1>0, <2>2, <3>1 DEF Alike, Going
  <2> QED
    BY <1>0, <2>1, <2>2
<1>2. FitsOf(run)
  BY DEF FitInv, Fits, Steps
<1> QED
  BY <1>1, <1>2, GoesOn

(***************************************************************************)
(* A deploy.                                                               *)
(***************************************************************************)
\* The new release comes after all others.
LEMMA CopyFits ==
  ASSUME FitInv, NEW o \in Operators, Copy(o, DbHost), NEW n, Steps(o, "copy", n)
  PROVE  FitsOf(n)'
<1> PICK run : run = runs[o]
  OBVIOUS
<1> PICK rel : rel = run.rel
  OBVIOUS
<1>0. /\ FitsOf(run) /\ Names \subseteq Ids /\ Ids \subseteq Nat /\ SourcesGrow /\ LiveInv
      /\ current[DbHost] \in Names /\ db' = db /\ dump' = dump /\ DbHost \in Hosts
  BY FitTypes DEF FitInv, Fits, Steps, Copy, dataVars
<1>1. /\ run.cmd = "deploy" /\ run.at = "copy" /\ run.status = "running"
      /\ n.cmd = "deploy" /\ n.at = "dump" /\ Going(n) /\ n.rel = rel
  BY DEF Steps, After, Running
<1>2. /\ ~Put(run) /\ ~Picked(run) /\ ~Unpacked(run)
      /\ Put(n) /\ ~Picked(n) /\ ~Unpacked(n) /\ ~Updated(n)
  BY <1>1 DEF Put, Picked, Unpacked, Updated, PutSteps, Going
<1>3. /\ db[1].up /\ current[DbHost] \in Newest(Names)
      /\ \A r \in Newest(Names) : db[1].schema = Src(r)
  BY <1>0, <1>2 DEF FitsOf, Settled
<1>4. /\ rel \in Ids /\ rel \notin Names /\ Names' = Names \cup {rel}
      /\ code'[DbHost][rel] = cache[DbHost]
      /\ \A r \in Names : Src(r)' = Src(r)
      /\ newer'[DbHost][rel] = {}
      /\ \A r \in Names : newer'[DbHost][r] = newer[DbHost][r] \cup {rel}
  BY <1>0, Copied DEF Names, Src
<1>5. \A a \in Names : a < rel
  BY <1>0, Copied DEF Names
<1>6. rel \in Newest(Names')
  <2> SUFFICES ASSUME NEW a \in Names' PROVE a <= rel
    BY <1>4 DEF Newest
  <2>1. a \in Nat /\ rel \in Nat /\ (a < rel \/ a = rel)
    BY <1>0, <1>4, <1>5
  <2> QED
    BY <2>1
<1>7. \A a \in Names' : Follows(Names', a, rel) => a \in Newest(Names)
  <2> SUFFICES ASSUME NEW a \in Names', Follows(Names', a, rel)
               PROVE  a \in Newest(Names)
    OBVIOUS
  <2>1. a \in Nat /\ rel \in Nat /\ a < rel
    BY <1>0, <1>4 DEF Follows
  <2>2. a \in Names
    BY <1>4, <2>1
  <2>3. ASSUME NEW c \in Names PROVE c <= a
    <3>1. c \in Nat /\ c < rel /\ (c <= a \/ c >= rel)
      BY <1>0, <1>4, <1>5, <2>3 DEF Follows
    <3> QED
      BY <2>1, <3>1
  <2> QED
    BY <2>2, <2>3 DEF Newest
<1>8. db[1].schema <= Src(rel)'
  <2>1. db[1].schema = Src(current[DbHost])
    BY <1>3
  <2>2. Src(current[DbHost]) <= cache[DbHost].src
    BY <1>0 DEF SourcesGrow
  <2> QED
    BY <1>4, <2>1, <2>2 DEF Src
<1>9. \A a \in Names' : Follows(Names', a, rel) => db[1].schema = Src(a)'
  BY <1>3, <1>4, <1>7 DEF Newest
<1>10. DeployFits(n)'
  BY <1>0, <1>1, <1>2, <1>3, <1>6, <1>8, <1>9 DEF DeployFits
<1>11. DumpsFit'
  <2> SUFFICES ASSUME NEW a \in Names', NEW b \in Names', Follows(Names', a, b),
                      dump[b].form # "none"
               PROVE  dump[b].schema = Src(a)'
    BY <1>0 DEF DumpsFit
  <2>1. b # rel
    <3>1. dump[rel].form = "none"
      BY PutsFresh, HostAssumption DEF Puts, FitInv
    <3> QED
      BY <3>1
  <2>2. a \in Names /\ b \in Names
    BY <1>0, <1>4, <1>5, <2>1 DEF Follows
  <2>3. Follows(Names, a, b)
    BY <1>4, <2>2 DEF Follows
  <2> QED
    BY <1>0, <1>4, <2>2, <2>3 DEF FitsOf, DumpsFit
<1>12. Packed(n)'
  BY <1>0, <1>1, <1>2, <1>4 DEF FitsOf, Packed, InHand
<1>13. NamesInOrder(n)'
  <2> SUFFICES ASSUME NEW r \in Names', NEW s \in Names'
               PROVE  s \in newer'[DbHost][r] <=> s > r
    BY DEF NamesInOrder
  <2>1. CASE r \in Names /\ s \in Names
    <3>1. s \in newer[DbHost][r] <=> s > r
      BY <1>0, <1>2, <2>1 DEF FitsOf, NamesInOrder
    <3> QED
      BY <1>4, <2>1, <3>1
  <2>2. CASE r \in Names /\ s = rel
    BY <1>0, <1>4, <1>5, <2>2
  <2>3. CASE r = rel
    <3>1. s \in Nat /\ rel \in Nat /\ (s < rel \/ s = rel)
      BY <1>0, <1>4, <1>5
    <3> QED
      BY <1>4, <2>3, <3>1
  <2> QED
    BY <1>4, <2>1, <2>2, <2>3
<1> QED
  BY <1>2, <1>10, <1>11, <1>12, <1>13 DEF FitsOf, Settled, RollbackFits

\* A release of the server is touched: it becomes the last of "ls -t".
LEMMA Touched ==
  ASSUME FitInv, NEW r \in Names, Touch(DbHost, r)
  PROVE  /\ newer'[DbHost][r] = {}
         /\ \A s \in Names \ {r} : newer'[DbHost][s] = newer[DbHost][s] \cup {r}
<1>1. r \in Ids /\ Names \subseteq Ids /\ DbHost \in Hosts /\ newer \in [Hosts -> [Ids -> SUBSET Ids]]
  BY FitTypes
<1>2. newer'[DbHost] = [s \in Ids |-> IF s = r THEN {} ELSE
                          IF s \in releases[DbHost] THEN newer[DbHost][s] \cup {r} ELSE {}]
  BY <1>1 DEF Touch
<1> QED
  BY <1>1, <1>2 DEF Names

\* A deploy backs up what was live; a rollback only a first release that has no dump.
LEMMA DumpTakenFits ==
  ASSUME FitInv, NEW o \in Operators, DumpTaken(o), NEW n, Steps(o, "dump", n)
  PROVE  FitsOf(n)'
<1> PICK run : run = runs[o]
  OBVIOUS
<1> PICK rel : rel = run.rel
  OBVIOUS
<1>0. /\ FitsOf(run) /\ Names \subseteq Ids /\ Ids \subseteq Nat
      /\ DbHost \in Hosts /\ dump \in [Ids -> Dump]
      /\ db' = db /\ Names' = Names /\ \A r : Src(r)' = Src(r)
  BY FitTypes DEF FitInv, Fits, Steps, DumpTaken, Names, Src
<1>1. /\ run.cmd \in {"deploy", "rollback"} /\ run.at = "dump" /\ Going(run)
      /\ n.cmd = run.cmd /\ n.at = "aliases" /\ Going(n) /\ n.rel = rel /\ n.last = run.last
  BY DEF Steps, After, Running, Going
<1>2. rel \in Names /\ rel \in Nat
  BY <1>0 DEF DumpTaken, Bootstraps, SettingsWork, Names
<1>3. /\ dump[rel].form # "gz"
      /\ dump'[rel] = [form |-> "gz", schema |-> db[1].schema, edits |-> db[1].edits]
      /\ \A r \in Names \ {rel} : dump'[r] = dump[r]
      /\ newer'[DbHost][rel] = {}
      /\ \A r \in Names \ {rel} : newer'[DbHost][r] = newer[DbHost][r] \cup {rel}
  <2>1. /\ dump[rel].form # "gz" /\ Touch(DbHost, rel)
        /\ dump' = [dump EXCEPT ![rel] =
                      [form |-> "gz", schema |-> db[1].schema, edits |-> db[1].edits]]
    BY DEF DumpTaken
  <2>2. /\ newer'[DbHost][rel] = {}
        /\ \A r \in Names \ {rel} : newer'[DbHost][r] = newer[DbHost][r] \cup {rel}
    BY <1>2, <2>1, Touched
  <2> QED
    BY <1>0, <1>2, <2>1, <2>2
<1>4. CASE run.cmd = "deploy"
  <2>1. /\ Put(run) /\ ~Picked(run) /\ ~Unpacked(run)
        /\ Put(n) /\ ~Picked(n) /\ ~Unpacked(n) /\ ~Updated(n)
    BY <1>1, <1>4 DEF Put, Picked, Unpacked, Updated, PutSteps
  <2>2. /\ rel \in Newest(Names) /\ db[1].up /\ db[1].schema <= Src(rel)
        /\ \A a \in Names : Follows(Names, a, rel) => db[1].schema = Src(a)
    BY <1>0, <1>1, <2>1 DEF FitsOf, DeployFits
  <2>3. DeployFits(n)'
    BY <1>0, <1>1, <2>1, <2>2 DEF DeployFits
  <2>4. DumpsFit'
    <3> SUFFICES ASSUME NEW a \in Names, NEW b \in Names, Follows(Names, a, b),
                        dump'[b].form # "none"
                 PROVE  dump'[b].schema = Src(a)
      BY <1>0 DEF DumpsFit
    <3>1. CASE b = rel
      BY <1>3, <2>2, <3>1
    <3>2. CASE b # rel
      BY <1>0, <1>3, <3>2 DEF FitsOf, DumpsFit
    <3> QED
      BY <3>1, <3>2
  <2>5. Packed(n)'
    <3> SUFFICES ASSUME NEW b \in Names, b # 1 PROVE dump'[b].form = "gz"
      BY <1>0 DEF Packed
    <3>1. CASE b # rel
      BY <1>0, <1>3, <2>1, <3>1 DEF FitsOf, Packed, InHand
    <3> QED
      BY <1>3, <3>1
  <2>6. NamesInOrder(n)'
    <3> SUFFICES ASSUME NEW r \in Names, NEW s \in Names
                 PROVE  s \in newer'[DbHost][r] <=> s > r
      BY <1>0 DEF NamesInOrder
    <3>1. s \in newer[DbHost][r] <=> s > r
      BY <1>0, <2>1 DEF FitsOf, NamesInOrder
    <3>2. r \in Nat /\ s \in Nat /\ r <= rel /\ s <= rel
      BY <1>0, <2>2 DEF Newest
    <3> QED
      BY <1>2, <1>3, <3>1, <3>2
  <2> QED
    BY <2>1, <2>3, <2>4, <2>5, <2>6 DEF FitsOf, Settled, RollbackFits
<1>5. CASE run.cmd = "rollback"
  <2>1. /\ Picked(run) /\ Unpacked(run) /\ ~Put(run) /\ Imported(run) /\ ~Archived(run)
        /\ Picked(n) /\ Unpacked(n) /\ ~Put(n) /\ Imported(n) /\ ~Archived(n)
    BY <1>1, <1>5 DEF Put, Picked, Unpacked, Imported, Archived
  <2>2. rel = 1
    <3>1. ~InHand(run, rel)
      BY <1>2, <2>1 DEF InHand
    <3> QED
      BY <1>0, <1>2, <1>3, <3>1 DEF FitsOf, Packed
  <2>3. PICK m \in Newest(Names) : Reverts(run, m)
    BY <1>0, <2>1 DEF FitsOf, RollbackFits
  <2>4. /\ m # rel /\ m \in Names /\ Follows(Names, rel, m) /\ n.last = m /\ dump[m].form = "sql"
    BY <1>0, <1>1, <1>2, <2>1, <2>3 DEF Reverts, Follows, Newest
  <2>5. Reverts(n, m)'
    BY <1>0, <1>1, <1>3, <2>1, <2>4 DEF Reverts
  <2>6. RollbackFits(n)'
    <3>1. db[1].up /\ db[1].schema = Src(rel)
      BY <1>0, <1>1, <2>1 DEF FitsOf, RollbackFits
    <3>2. m \in Newest(Names)'
      BY <1>0, <2>3 DEF Newest
    <3> QED
      BY <1>0, <1>1, <1>2, <2>1, <2>5, <3>1, <3>2 DEF RollbackFits
  <2>7. DumpsFit'
    <3> SUFFICES ASSUME NEW a \in Names, NEW b \in Names, Follows(Names, a, b),
                        dump'[b].form # "none"
                 PROVE  dump'[b].schema = Src(a)
      BY <1>0 DEF DumpsFit
    <3>1. b # rel
      <4>1. a >= 1 /\ a < b /\ a \in Nat /\ b \in Nat
        BY <1>0, BoundAssumption DEF Follows, Ids
      <4> QED
        BY <2>2, <4>1
    <3> QED
      BY <1>0, <1>3, <3>1 DEF FitsOf, DumpsFit
  <2>8. Packed(n)'
    <3> SUFFICES ASSUME NEW b \in Names, b # 1 PROVE dump'[b].form = "gz" \/ InHand(n, b)
      BY <1>0 DEF Packed
    <3>1. dump[b].form = "gz" \/ InHand(run, b)
      BY <1>0 DEF FitsOf, Packed
    <3> QED
      BY <1>1, <1>3, <2>1, <2>2, <3>1 DEF InHand
  <2>9. NamesInOrder(n)'
    <3> SUFFICES ASSUME NEW r \in Names, NEW s \in Names, r <= rel, s <= rel
                 PROVE  s \in newer'[DbHost][r] <=> s > r
      BY <1>0, <1>1, <2>1 DEF NamesInOrder
    <3>1. r = 1 /\ s = 1
      BY <1>0, <2>2, BoundAssumption DEF Ids
    <3> QED
      BY <1>3, <2>2, <3>1
  <2> QED
    BY <2>1, <2>6, <2>7, <2>8, <2>9 DEF FitsOf, Settled, DeployFits
<1> QED
  BY <1>1, <1>4, <1>5

\* A deploy does not skip its backup.
LEMMA DumpSkippedFits ==
  ASSUME FitInv, OwnSettings, StagesShipped, NEW o \in Operators, DumpSkipped(o),
         NEW n, Steps(o, "dump", n)
  PROVE  FitsOf(n)'
<1>1. Unchanged
  BY DEF DumpSkipped, Unchanged, diskVars, dataVars
<1>2. ASSUME runs[o].cmd = "deploy" PROVE FALSE
  <2>1. FitsOf(runs[o]) /\ Put(runs[o])
    BY <1>2 DEF FitInv, Fits, Steps, Running, Put, Going, PutSteps
  <2>2. runs[o].rel \in Names /\ db[1].up
    BY <2>1 DEF FitsOf, DeployFits, Newest
  <2>3. Bootstraps(runs[o].rel)
    BY <2>2, Works, HostAssumption DEF Bootstraps, Names
  <2>4. dump[runs[o].rel].form = "none"
    BY <1>2 DEF DumpSkipped, At, Running, FitInv, UndoInv, NotYetDumped, Undumped, Due
  <2> QED
    BY <2>3, <2>4 DEF DumpSkipped
<1>3. runs[o].cmd = "rollback"
  BY <1>2 DEF Steps
<1> QED
  BY <1>1, <1>3, LaterFits

\* The code that is live when a run updates is that of its release.
LEMMA UpdatesLive ==
  ASSUME FitInv, NEW o \in Operators, Running(o), runs[o].at = "updatedb"
  PROVE  current[DbHost] = runs[o].rel
BY FitTypes DEF LiveInv, RunsLive, RunLive

\* A deploy that has run its updates has the schema of its code.
LEMMA UpdatesDoneFits ==
  ASSUME FitInv, NEW o \in Operators, UpdatesDone(o), NEW n, Steps(o, "updatedb", n)
  PROVE  FitsOf(n)'
<1> PICK run : run = runs[o]
  OBVIOUS
<1>0. /\ FitsOf(run) /\ Names \subseteq Ids /\ Unchanged /\ db' = db
  BY FitTypes DEF FitInv, Fits, Steps, UpdatesDone, Unchanged, diskVars, dataVars
<1>1. CASE run.cmd = "rollback"
  BY <1>0, <1>1, LaterFits DEF Linking
<1>2. CASE run.cmd = "deploy"
  <2>1. /\ run.at = "updatedb" /\ Going(run) /\ Running(o)
        /\ n.cmd = "deploy" /\ n.at = "ban" /\ Going(n) /\ n.rel = run.rel
    BY <1>2 DEF Steps, After, Running, Going
  <2>2. /\ Put(run) /\ ~Picked(run) /\ ~Unpacked(run) /\ \A b : ~InHand(run, b)
        /\ Put(n) /\ ~Picked(n) /\ ~Unpacked(n) /\ \A b : ~InHand(n, b)
    BY <1>2, <2>1 DEF Put, Picked, Unpacked, InHand, PutSteps
  <2>3. /\ run.rel \in Newest(Names) /\ run.rel \in Ids /\ db[1].up
        /\ db[1].schema <= Src(run.rel)
    BY <1>0, <2>2 DEF FitsOf, DeployFits, Newest
  <2>4. db[1].schema = Src(run.rel)
    <3>1. 1 \in Sites /\ db[1].schema \in Nat /\ Src(run.rel) \in Nat
      BY <2>3, FitTypes, FitNumbers
    <3>2. ~(db[1].schema < Src(run.rel))
      BY <2>1, <3>1, UpdatesLive DEF UpdatesDone, Behind, Src
    <3> QED
      BY <2>3, <3>1, <3>2
  <2>5. Names' = Names /\ \A r : Src(r)' = Src(r)
    BY <1>0 DEF Unchanged, Names, Src
  <2>6. DeployFits(n)'
    <3>1. db'[1].schema <= Src(run.rel)
      BY <1>0, <2>3
    <3> QED
      BY <1>0, <2>1, <2>3, <2>4, <2>5, <3>1 DEF DeployFits
  <2>7. DumpsFit' /\ Packed(n)' /\ NamesInOrder(n)'
    BY <1>0, <2>2, <2>5 DEF FitsOf, DumpsFit, Packed, NamesInOrder, Unchanged
  <2> QED
    BY <2>2, <2>6, <2>7 DEF FitsOf, Settled, RollbackFits
<1> QED
  BY <1>1, <1>2 DEF Steps

\* A hook of the one site brings a deploy closer to its code; a rollback needs none.
LEMMA UpdateHookFits ==
  ASSUME FitInv, NumSites = 1, NEW o \in Operators, NEW s \in Sites, UpdateHook(o, s)
  PROVE  runs' = runs /\ \E n : n = DbRun(runs[o]) /\ FitsOf(n)'
<1> PICK run : run = runs[o]
  OBVIOUS
<1>0. /\ FitsOf(run) /\ Running(o) /\ run.at = "updatedb" /\ runs' = runs
      /\ UNCHANGED <<releases, code, newer, dump>> /\ s = 1 /\ 1 \in Sites
      /\ Going(run) /\ run.cmd \in {"deploy", "rollback"}
      /\ current[DbHost] = run.rel
  <2>1. Running(o) /\ runs[o].at = "updatedb"
    BY DEF UpdateHook, CanUpdate, At
  <2>2. LiveInv
    BY FitTypes
  <2> QED
    BY <2>1, <2>2, FitTypes, UpdatesLive, OnDbHost
    DEF FitInv, Fits, UpdateHook, diskVars, Sites, Going, Running, LiveInv, RunsLive, RunLive
<1>1. /\ db' = [db EXCEPT ![1].schema = @ + 1] /\ db[1].up
      /\ db[1].schema < Src(run.rel)
  BY <1>0 DEF UpdateHook, CanUpdate, Bootstraps, Behind, Src
<1>2. ASSUME run.cmd = "rollback" PROVE FALSE
  <2>1. Imported(run)
    BY <1>0, <1>2 DEF Imported, Unpacked, Picked
  <2>2. db[1].schema = Src(run.rel) /\ db[1].schema \in Nat
    BY <1>0, <2>1, FitNumbers DEF FitsOf, RollbackFits, Imported, Unpacked
  <2> QED
    BY <1>1, <2>2
<1>3. Put(run) /\ ~Picked(run) /\ ~Unpacked(run) /\ ~Updated(run) /\ \A b : ~InHand(run, b)
  BY <1>0, <1>2 DEF Put, Picked, Unpacked, Updated, InHand, PutSteps
<1>4. run.rel \in Newest(Names) /\ run.rel \in Names
  BY <1>0, <1>3 DEF FitsOf, DeployFits, Newest
<1>5. Names' = Names /\ \A r : Src(r)' = Src(r)
  BY <1>0 DEF Names, Src
<1>6. DeployFits(run)'
  <2>1. /\ db[1].schema \in Nat /\ Src(run.rel) \in Nat /\ db \in [Sites -> Database]
    BY <1>4, FitTypes, FitNumbers
  <2>2. db'[1].up /\ db'[1].schema = db[1].schema + 1
    BY <1>0, <1>1, <2>1 DEF Database
  <2>3. db'[1].schema <= Src(run.rel)
    BY <1>1, <2>1, <2>2
  <2> QED
    BY <1>0, <1>3, <1>4, <1>5, <2>2, <2>3 DEF DeployFits
<1>7. DumpsFit' /\ Packed(run)' /\ NamesInOrder(run)'
  BY <1>0, <1>3, <1>5 DEF FitsOf, DumpsFit, Packed, NamesInOrder
<1>8. FitsOf(run)'
  BY <1>3, <1>6, <1>7 DEF FitsOf, Settled, RollbackFits
<1>9. run = DbRun(runs[o])
  BY <1>0, OnDbHost
<1> QED
  BY <1>0, <1>8, <1>9

\* What is deleted leaves no gap: the names kept are the newest.
LEMMA KeptUp ==
  ASSUME NEW S \in SUBSET Ids, NEW a \in Kept(S), NEW c \in S, c > a
  PROVE  c \in Kept(S)
<1>1. S \subseteq Nat /\ a \in S
  BY BoundAssumption DEF Ids, Kept
<1> DEFINE above(r) == {s \in S : s > r}
<1>2. IsFiniteSet(S)
  <2>1. IsFiniteSet(Ids)
    BY BoundAssumption, FS_Interval DEF Ids
  <2> QED
    BY <2>1, FS_Subset
<1>3. IsFiniteSet(above(a)) /\ IsFiniteSet(above(c))
  BY <1>2, FS_Subset
<1>4. above(c) \subseteq above(a)
  <2> SUFFICES ASSUME NEW s \in S, s > c PROVE s > a
    OBVIOUS
  <2>1. s \in Nat /\ a \in Nat /\ c \in Nat
    BY <1>1
  <2> QED
    BY <2>1
<1>5. Cardinality(above(a)) < KeepReleases
  BY DEF Kept
<1> HIDE DEF above
<1>6. Cardinality(above(c)) <= Cardinality(above(a))
  BY <1>3, <1>4, FS_Subset
<1>7. Cardinality(above(c)) \in Nat /\ Cardinality(above(a)) \in Nat
  BY <1>3, FS_CardinalityType
<1>8. Cardinality(above(c)) < KeepReleases
  BY <1>5, <1>6, <1>7, KeepAssumption
<1> QED
  BY <1>8 DEF Kept, above

\* The clean-up leaves no gap between the releases.
LEMMA CleanupFits ==
  ASSUME FitInv, NEW o \in Operators, Cleanup(o, DbHost), NEW n, Steps(o, "cleanup", n)
  PROVE  FitsOf(n)'
<1> PICK run : run = runs[o]
  OBVIOUS
<1> PICK rel : rel = run.rel
  OBVIOUS
<1>0. /\ FitsOf(run) /\ Names \in SUBSET Ids /\ Ids \subseteq Nat /\ db' = db
  BY FitTypes DEF FitInv, Fits, Steps, Cleanup
<1>1. /\ run.cmd = "deploy" /\ run.at = "cleanup" /\ Going(run)
      /\ n.cmd = "deploy" /\ n.at = "end" /\ Going(n) /\ n.rel = rel
  BY DEF Steps, After, Running, Going
<1>2. /\ Put(run) /\ Updated(run) /\ ~Picked(run) /\ ~Unpacked(run) /\ \A b : ~InHand(run, b)
      /\ Put(n) /\ ~Picked(n) /\ ~Unpacked(n) /\ \A b : ~InHand(n, b)
  BY <1>1 DEF Put, Updated, Picked, Unpacked, InHand, PutSteps
<1>3. rel \in Newest(Names) /\ rel \in Names /\ db[1].up /\ db[1].schema = Src(rel)
      /\ db[1].schema <= Src(rel)
  BY <1>0, <1>2 DEF FitsOf, DeployFits, Newest
<1> PICK gone : gone = Names \ Kept(Names)
  OBVIOUS
<1>4. Remove(DbHost, gone)
  BY DEF Cleanup, Names
<1>5. /\ Names' = Kept(Names) /\ Kept(Names) \subseteq Names
      /\ \A r \in Names' : Src(r)' = Src(r) /\ dump'[r] = dump[r]
                           /\ newer'[DbHost][r] = newer[DbHost][r] \ gone
  <2>1. Kept(Names) \subseteq Names /\ Names \ gone = Kept(Names)
    BY DEF Kept
  <2> QED
    BY <1>4, <2>1, DbDeleted
<1>6. rel \in Newest(Names')
  <2>1. rel \in Kept(Names)
    BY <1>0, <1>3, NewestKept DEF Newest
  <2> QED
    BY <1>3, <1>5, <2>1 DEF Newest
<1>7. DeployFits(n)'
  <2>1. Src(rel)' = Src(rel)
    BY <1>5, <1>6 DEF Newest
  <2> QED
    BY <1>0, <1>1, <1>2, <1>3, <1>6, <2>1 DEF DeployFits
<1>8. DumpsFit'
  <2> SUFFICES ASSUME NEW a \in Names', NEW b \in Names', Follows(Names', a, b),
                      dump'[b].form # "none"
               PROVE  dump'[b].schema = Src(a)'
    BY DEF DumpsFit
  <2>1. a \in Names /\ b \in Names /\ a < b /\ a \in Kept(Names) /\ a \in Nat
    BY <1>0, <1>5 DEF Follows
  <2>2. ASSUME NEW c \in Names PROVE c <= a \/ c >= b
    <3>1. CASE c > a
      <4>1. c \in Names'
        BY <1>0, <1>5, <2>1, <3>1, KeptUp
      <4> QED
        BY <4>1 DEF Follows
    <3>2. CASE ~(c > a)
      <4>1. c \in Nat /\ a \in Nat
        BY <1>0, <2>1, <2>2
      <4> QED
        BY <3>2, <4>1
    <3> QED
      BY <3>1, <3>2
  <2>3. Follows(Names, a, b)
    BY <2>1, <2>2 DEF Follows
  <2> QED
    <3>1. dump'[b] = dump[b] /\ Src(a)' = Src(a)
      BY <1>5
    <3>2. dump[b].schema = Src(a)
      BY <1>0, <2>1, <2>3, <3>1 DEF FitsOf, DumpsFit
    <3> QED
      BY <3>1, <3>2
<1>9. Packed(n)'
  BY <1>0, <1>2, <1>5 DEF FitsOf, Packed
<1>10. NamesInOrder(n)'
  <2> SUFFICES ASSUME NEW r \in Names', NEW s \in Names'
               PROVE  s \in newer'[DbHost][r] <=> s > r
    BY DEF NamesInOrder
  <2>1. s \notin gone /\ r \in Names /\ s \in Names
    BY <1>5
  <2>2. s \in newer[DbHost][r] <=> s > r
    BY <1>0, <1>2, <2>1 DEF FitsOf, NamesInOrder
  <2> QED
    BY <1>5, <2>1, <2>2
<1> QED
  BY <1>2, <1>7, <1>8, <1>9, <1>10 DEF FitsOf, Settled, RollbackFits

(***************************************************************************)
(* A rollback.                                                             *)
(***************************************************************************)
\* The view of the database server is one of a run.
LEMMA NextFields ==
  ASSUME FitInv, [Next]_vars, NEW o \in Operators, NEW n, n = DbRun(runs'[o])
  PROVE  n.rel = runs'[o].rel /\ n.last = runs'[o].last
<1>1. runs' \in [Operators -> Run]
  BY FitTypes, TypeStep DEF LiveInv, TypeInv, TypeOK
<1> QED
  BY <1>1, DbRunFields

\* The second of "ls -t" is the last but one name, where these orders agree.
LEMMA SecondByName ==
  ASSUME FitInv, NEW h \in Hosts, NEW r \in releases[h], Cardinality(newer[h][r]) = 1,
         \A s \in releases[h] : s \in newer[h][r] <=> s > r
  PROVE  \E m \in Newest(releases[h]) : Follows(releases[h], r, m)
<1> PICK S : S = releases[h]
  OBVIOUS
<1>0. S \subseteq Ids /\ Ids \subseteq Nat /\ Ordered(newer[h], S)
  BY FitTypes DEF FitInv, UndoInv, ReadyInv, TouchOrder
<1>1. PICK m : newer[h][r] = {m}
  <2>1. IsFiniteSet(Ids)
    BY BoundAssumption, FS_Interval DEF Ids
  <2>2. newer[h][r] \subseteq Ids
    BY <1>0 DEF Ordered
  <2>3. IsFiniteSet(newer[h][r])
    BY <2>1, <2>2, FS_Subset
  <2> QED
    BY <2>3, FS_Singleton
<1>2. m \in S /\ m > r /\ \A s \in S : s > r => s = m
  <2>1. m \in S
    BY <1>0, <1>1 DEF Ordered
  <2> QED
    BY <1>1, <2>1
<1>3. m \in Newest(S)
  <2> SUFFICES ASSUME NEW c \in S PROVE c <= m
    BY <1>2 DEF Newest
  <2>1. c \in Nat /\ m \in Nat /\ r \in Nat /\ (c > r => c = m) /\ m > r
    BY <1>0, <1>2
  <2> QED
    BY <2>1
<1>4. Follows(S, r, m)
  <2> SUFFICES ASSUME NEW c \in S PROVE r < m /\ (c <= r \/ c >= m)
    BY <1>2 DEF Follows
  <2>1. c \in Nat /\ m \in Nat /\ r \in Nat /\ (c > r => c = m) /\ m > r
    BY <1>0, <1>2
  <2> QED
    BY <2>1
<1> QED
  BY <1>3, <1>4

\* There is one last but one name.
LEMMA FollowsOnce ==
  ASSUME NEW S \in SUBSET Ids, NEW a, NEW b, NEW m \in Newest(S), NEW k \in Newest(S),
         Follows(S, a, m), Follows(S, b, k)
  PROVE  a = b /\ m = k
<1>0. S \subseteq Nat
  BY BoundAssumption DEF Ids
<1>1. m \in Nat /\ k \in Nat /\ m <= k /\ k <= m
  BY <1>0 DEF Newest
<1>2. m = k
  BY <1>1
<1>3. /\ a \in Nat /\ b \in Nat /\ a < m /\ b < m
      /\ (b <= a \/ b >= m) /\ (a <= b \/ a >= m)
  BY <1>0, <1>2 DEF Follows
<1> QED
  BY <1>1, <1>2, <1>3

\* A rollback takes the name that the last host to do the step has found.
LEMMA PickedName ==
  ASSUME FitInv, NEW o \in Operators, NEW h \in Hosts, Pick(o, h)
  PROVE  \E r \in releases[h] : Cardinality(newer[h][r]) = 1 /\ runs'[o].rel = r
<1>1. PICK r \in releases[h] : Cardinality(newer[h][r]) = 1 /\ AdvanceTo(o, h, r)
  BY DEF Pick
<1>2. runs'[o] = [Done(runs[o], h) EXCEPT !.rel = r]
  BY <1>1, FitTypes DEF AdvanceTo
<1>3. Done(runs[o], h) \in Run
  <2>1. runs[o] \in Run /\ RunOk(runs[o]) /\ Running(o)
    BY FitTypes DEF LiveInv, TypeInv, RunsOk, Pick, At, Running
  <2> QED
    BY <2>1, DoneType DEF Running
<1>4. runs'[o].rel = r
  BY <1>2, <1>3 DEF Run
<1> QED
  BY <1>1, <1>4

\* The release picked is the one before the newest.
LEMMA PickFits ==
  ASSUME FitInv, [Next]_vars, NEW o \in Operators, Pick(o, DbHost),
         NEW n, n = DbRun(runs'[o]), Steps(o, "pick", n)
  PROVE  FitsOf(n)'
<1> PICK run : run = runs[o]
  OBVIOUS
<1>0. /\ FitsOf(run) /\ Names \subseteq Ids /\ Ids \subseteq Nat /\ Unchanged /\ db' = db
  BY FitTypes DEF FitInv, Fits, Steps, Pick, Unchanged, diskVars, dataVars
<1>1. /\ run.cmd = "rollback" /\ run.at = "pick" /\ Going(run)
      /\ n.cmd = "rollback" /\ n.at = "gunzip" /\ Going(n)
  BY DEF Steps, After, Running, Going
<1>2. /\ ~Put(run) /\ ~Picked(run) /\ ~Unpacked(run) /\ \A b : ~InHand(run, b)
      /\ ~Put(n) /\ Picked(n) /\ ~Unpacked(n) /\ ~Imported(n) /\ ~Archived(n)
      /\ \A b : ~InHand(n, b)
  BY <1>1 DEF Put, Picked, Unpacked, Imported, Archived, InHand
<1>3. PICK r \in Names : Cardinality(newer[DbHost][r]) = 1 /\ n.rel = r
  BY HostAssumption, PickedName, NextFields DEF Names
<1>4. \A s \in Names : s \in newer[DbHost][r] <=> s > r
  BY <1>0, <1>2 DEF FitsOf, NamesInOrder
<1>5. PICK m \in Newest(Names) : Follows(Names, r, m)
  BY <1>3, <1>4, SecondByName, HostAssumption DEF Names
<1>6. m \in Newest(Names) /\ m \in Names /\ r < m
  BY <1>5 DEF Follows
<1>7. Follows(Names, r, m)
  BY <1>5
<1>8. dump[m].form = "gz"
  <2>1. m # 1
    <3>1. r >= 1 /\ m > r /\ r \in Nat /\ m \in Nat
      BY <1>0, <1>6, BoundAssumption DEF Ids
    <3> QED
      BY <3>1
  <2> QED
    BY <1>0, <1>2, <1>6, <2>1 DEF FitsOf, Packed
<1>9. Names' = Names /\ \A c : Src(c)' = Src(c)
  BY <1>0 DEF Unchanged, Names, Src
<1>10. RollbackFits(n)'
  <2>1. db[1].up
    BY <1>0, <1>2 DEF FitsOf, Settled
  <2>2. Reverts(n, m)'
    BY <1>0, <1>2, <1>3, <1>7, <1>8, <1>9 DEF Reverts, Unchanged
  <2>3. m \in Newest(Names)'
    BY <1>6, <1>9 DEF Newest
  <2> QED
    BY <1>0, <1>2, <1>3, <1>9, <2>1, <2>2, <2>3 DEF RollbackFits
<1>11. DumpsFit' /\ Packed(n)' /\ NamesInOrder(n)'
  BY <1>0, <1>2, <1>9 DEF FitsOf, DumpsFit, Packed, NamesInOrder, Unchanged
<1> QED
  BY <1>2, <1>10, <1>11 DEF FitsOf, Settled, DeployFits

\* revert_database unpacks the dump of the release that the rollback leaves.
LEMMA GunzipFits ==
  ASSUME FitInv, [Next]_vars, NEW o \in Operators, Gunzip(o),
         NEW n, n = DbRun(runs'[o]), Steps(o, "gunzip", n)
  PROVE  FitsOf(n)'
<1> PICK run : run = runs[o]
  OBVIOUS
<1> PICK rel : rel = run.rel
  OBVIOUS
<1>0. /\ FitsOf(run) /\ Names \subseteq Ids /\ Ids \subseteq Nat
      /\ DbHost \in Hosts /\ dump \in [Ids -> Dump]
      /\ db' = db /\ Names' = Names /\ \A r : Src(r)' = Src(r)
  BY FitTypes DEF FitInv, Fits, Steps, Gunzip, Names, Src
<1>1. /\ run.cmd = "rollback" /\ run.at = "gunzip" /\ Going(run)
      /\ n.cmd = "rollback" /\ n.at = "drop" /\ Going(n) /\ n.rel = rel
  BY DEF Steps, After, Running, Going
<1>2. /\ ~Put(run) /\ Picked(run) /\ ~Unpacked(run) /\ ~Archived(run) /\ ~Imported(run)
      /\ \A b : ~InHand(run, b)
      /\ ~Put(n) /\ Picked(n) /\ Unpacked(n) /\ ~Imported(n) /\ ~Archived(n)
      /\ \A b : b > rel => InHand(n, b)
  BY <1>1 DEF Put, Picked, Unpacked, Imported, Archived, InHand
<1>3. /\ rel \in Names /\ db[1].up /\ \E m \in Newest(Names) : Reverts(run, m)
  BY <1>0, <1>1, <1>2 DEF FitsOf, RollbackFits
<1>4. PICK m \in Newest(Names) : Reverts(run, m)
  BY <1>3
<1>5. m \in Names /\ m \in Ids /\ Follows(Names, rel, m) /\ rel < m /\ dump[m].form = "gz"
  BY <1>0, <1>2, <1>4 DEF Reverts, Follows
<1>6. /\ dump' = [dump EXCEPT ![m].form = "sql"] /\ Touch(DbHost, m) /\ n.last = m
  <2>1. PICK l \in Newest(Names) :
          /\ dump' = [dump EXCEPT ![l].form = "sql"] /\ Touch(DbHost, l)
          /\ runs' = [runs EXCEPT ![o] = [Done(@, DbHost) EXCEPT !.last = l]]
    BY DEF Gunzip, Names
  <2>2. l = m
    BY <1>0, <1>4, <2>1 DEF Newest
  <2>3. runs'[o] = [Done(runs[o], DbHost) EXCEPT !.last = m]
    BY <2>1, <2>2, FitTypes
  <2>4. Done(runs[o], DbHost) \in Run
    <3>1. runs[o] \in Run /\ RunOk(runs[o]) /\ Running(o)
      BY FitTypes DEF LiveInv, TypeInv, RunsOk, Steps, Running
    <3> QED
      BY <3>1, DoneType DEF Running
  <2>5. n.last = m
    BY <2>3, <2>4, NextFields DEF Run
  <2> QED
    BY <2>1, <2>2, <2>5
<1>7. /\ dump'[m].form = "sql" /\ dump'[m].schema = dump[m].schema
      /\ \A r \in Names \ {m} : dump'[r] = dump[r]
      /\ \A r \in Names \ {m} : newer'[DbHost][r] = newer[DbHost][r] \cup {m}
  <2>1. dump'[m] = [dump[m] EXCEPT !.form = "sql"] /\ dump[m] \in Dump
        /\ \A r \in Names \ {m} : dump'[r] = dump[r]
    BY <1>0, <1>5, <1>6
  <2>2. dump'[m].form = "sql" /\ dump'[m].schema = dump[m].schema
    BY <2>1 DEF Dump
  <2> QED
    BY <1>5, <1>6, <2>1, <2>2, Touched
<1>8. RollbackFits(n)'
  <2>1. Reverts(n, m)'
    BY <1>0, <1>1, <1>2, <1>5, <1>6, <1>7 DEF Reverts
  <2>2. m \in Newest(Names)'
    BY <1>0, <1>4 DEF Newest
  <2> QED
    BY <1>0, <1>1, <1>2, <1>3, <2>1, <2>2 DEF RollbackFits
<1>9. DumpsFit'
  <2> SUFFICES ASSUME NEW a \in Names, NEW b \in Names, Follows(Names, a, b),
                      dump'[b].form # "none"
               PROVE  dump'[b].schema = Src(a)
    BY <1>0 DEF DumpsFit
  <2>1. dump[b].form # "none" /\ dump'[b].schema = dump[b].schema
    BY <1>5, <1>7
  <2> QED
    BY <1>0, <2>1 DEF FitsOf, DumpsFit
<1>10. Packed(n)'
  <2> SUFFICES ASSUME NEW b \in Names, b # 1 PROVE dump'[b].form = "gz" \/ InHand(n, b)
    BY <1>0 DEF Packed
  <2>1. CASE b = m
    <3>1. m > rel
      BY <1>0, <1>3, <1>5
    <3> QED
      BY <1>2, <2>1, <3>1
  <2>2. CASE b # m
    BY <1>0, <1>2, <1>7, <2>2 DEF FitsOf, Packed
  <2> QED
    BY <2>1, <2>2
<1>11. NamesInOrder(n)'
  <2> SUFFICES ASSUME NEW r \in Names, NEW s \in Names, r <= rel, s <= rel
               PROVE  s \in newer'[DbHost][r] <=> s > r
    BY <1>0, <1>1, <1>2 DEF NamesInOrder
  <2>1. s # m /\ r # m
    <3>1. r \in Nat /\ s \in Nat /\ rel \in Nat /\ m \in Nat
      BY <1>0, <1>3, <1>5
    <3> QED
      BY <1>5, <3>1
  <2>2. s \in newer[DbHost][r] <=> s > r
    BY <1>0, <1>2 DEF FitsOf, NamesInOrder
  <2> QED
    BY <1>7, <2>1, <2>2
<1> QED
  BY <1>2, <1>8, <1>9, <1>10, <1>11 DEF FitsOf, Settled, DeployFits

\* The tables are gone, the dump to import is there.
LEMMA DropFits ==
  ASSUME FitInv, NEW o \in Operators, DropTables(o), NEW n, Steps(o, "drop", n)
  PROVE  FitsOf(n)'
<1> PICK run : run = runs[o]
  OBVIOUS
<1>0. /\ FitsOf(run) /\ Names' = Names /\ \A r : Src(r)' = Src(r)
      /\ newer' = newer /\ dump' = dump
  BY DEF FitInv, Fits, Steps, DropTables, Names, Src, diskVars
<1>1. /\ run.cmd = "rollback" /\ run.at = "drop" /\ Going(run)
      /\ n.cmd = "rollback" /\ n.at = "import" /\ Going(n) /\ n.rel = run.rel /\ n.last = run.last
  BY DEF Steps, After, Running, Going
<1>2. /\ ~Put(run) /\ Picked(run) /\ Unpacked(run) /\ ~Archived(run)
      /\ ~Put(n) /\ Picked(n) /\ Unpacked(n) /\ ~Imported(n) /\ ~Archived(n)
      /\ \A b : InHand(n, b) <=> InHand(run, b)
  BY <1>1 DEF Put, Picked, Unpacked, Imported, Archived, InHand
<1>3. RollbackFits(n)'
  BY <1>0, <1>1, <1>2 DEF FitsOf, RollbackFits, Reverts
<1>4. DumpsFit' /\ Packed(n)' /\ NamesInOrder(n)'
  BY <1>0, <1>1, <1>2 DEF FitsOf, DumpsFit, Packed, NamesInOrder
<1> QED
  BY <1>2, <1>3, <1>4 DEF FitsOf, Settled, DeployFits

\* That dump has the schema of the release rolled back to.
LEMMA ImportFits ==
  ASSUME FitInv, NEW o \in Operators, Import(o), NEW n, Steps(o, "import", n)
  PROVE  FitsOf(n)'
<1> PICK run : run = runs[o]
  OBVIOUS
<1>0. /\ FitsOf(run) /\ Names' = Names /\ \A r : Src(r)' = Src(r)
      /\ newer' = newer /\ dump' = dump
  BY DEF FitInv, Fits, Steps, Import, Names, Src, diskVars
<1>1. /\ run.cmd = "rollback" /\ run.at = "import" /\ Going(run)
      /\ n.cmd = "rollback" /\ n.at = "dump" /\ Going(n) /\ n.rel = run.rel /\ n.last = run.last
  BY DEF Steps, After, Running, Going
<1>2. /\ ~Put(run) /\ Picked(run) /\ Unpacked(run) /\ ~Archived(run)
      /\ ~Put(n) /\ Picked(n) /\ Unpacked(n) /\ Imported(n) /\ ~Archived(n)
      /\ \A b : InHand(n, b) <=> InHand(run, b)
  BY <1>1 DEF Put, Picked, Unpacked, Imported, Archived, InHand
<1>3. db'[1].up /\ db'[1].schema = Src(run.rel)
  <2>1. PICK m \in Newest(Names) : Reverts(run, m)
    BY <1>0, <1>2 DEF FitsOf, RollbackFits
  <2>2. /\ Follows(Names, run.rel, m) /\ run.last = m /\ dump[m].form = "sql"
        /\ run.rel \in Names /\ m \in Names
    BY <1>2, <2>1 DEF Reverts, Follows
  <2>3. dump[m].schema = Src(run.rel)
    BY <1>0, <2>2 DEF FitsOf, DumpsFit
  <2>4. db' = [db EXCEPT ![1] = [up |-> TRUE, schema |-> dump[m].schema, edits |-> dump[m].edits]]
    BY <2>2 DEF Import
  <2> QED
    BY <2>3, <2>4, FitTypes
<1>4. RollbackFits(n)'
  <2>1. run.rel \in Names /\ \E m \in Newest(Names) : Reverts(run, m)
    BY <1>0, <1>2 DEF FitsOf, RollbackFits
  <2>2. \E m \in Newest(Names)' : Reverts(n, m)'
    BY <1>0, <1>1, <1>2, <2>1 DEF Reverts, Newest
  <2> QED
    BY <1>0, <1>1, <1>2, <1>3, <2>1, <2>2 DEF RollbackFits
<1>5. DumpsFit' /\ Packed(n)' /\ NamesInOrder(n)'
  BY <1>0, <1>1, <1>2 DEF FitsOf, DumpsFit, Packed, NamesInOrder
<1> QED
  BY <1>2, <1>4, <1>5 DEF FitsOf, Settled, DeployFits

\* The release left is deleted; the one rolled back to is then the newest.
LEMMA ArchiveFits ==
  ASSUME FitInv, NEW o \in Operators, Archive(o, DbHost), NEW n, Steps(o, "archive", n)
  PROVE  FitsOf(n)'
<1> PICK run : run = runs[o]
  OBVIOUS
<1> PICK rel : rel = run.rel
  OBVIOUS
<1>0. /\ FitsOf(run) /\ Names \in SUBSET Ids /\ Ids \subseteq Nat /\ db' = db
  BY FitTypes DEF FitInv, Fits, Steps, Archive
<1>1. /\ run.cmd = "rollback" /\ run.at = "archive" /\ Going(run) /\ run.status = "running"
      /\ n.cmd = "rollback" /\ n.at = "end" /\ Going(n) /\ n.rel = rel
  BY DEF Steps, After, Running, Going
<1>2. /\ ~Put(run) /\ Picked(run) /\ Unpacked(run) /\ Imported(run) /\ ~Archived(run)
      /\ \A b : InHand(run, b) => b > rel
      /\ ~Put(n) /\ Picked(n) /\ Unpacked(n) /\ Imported(n) /\ Archived(n)
  BY <1>1 DEF Put, Picked, Unpacked, Imported, Archived, InHand
<1>3. rel \in Names /\ db[1].up /\ db[1].schema = Src(rel)
  BY <1>0, <1>1, <1>2 DEF FitsOf, RollbackFits
<1>4. PICK m \in Newest(Names) : Reverts(run, m)
  BY <1>0, <1>2 DEF FitsOf, RollbackFits
<1>5. /\ m \in Names /\ rel < m /\ Newest(Names) = {m} /\ rel # m
      /\ \A c \in Names : c <= rel \/ c = m
  <2>1. m \in Names /\ Follows(Names, rel, m) /\ \A c \in Names : c <= m
    BY <1>4 DEF Reverts, Follows, Newest
  <2>2. \A c \in Names : c \in Nat
    BY <1>0
  <2>3. Newest(Names) = {m}
    BY <2>1, <2>2 DEF Newest
  <2>4. rel < m /\ rel # m
    BY <1>3, <2>1, <2>2 DEF Follows
  <2>5. ASSUME NEW c \in Names PROVE c <= rel \/ c = m
    <3>1. c \in Nat /\ m \in Nat /\ c <= m /\ (c <= rel \/ c >= m)
      BY <1>3, <2>1, <2>2 DEF Follows
    <3> QED
      BY <3>1
  <2> QED
    BY <2>1, <2>3, <2>4, <2>5
<1>6. current[DbHost] = rel
  <2>1. Did(run, "link", DbHost)
    <3>1. "archive" \in DOMAIN Place["rollback"] /\ "archive" \in Published
      BY DEF Place, Published
    <3> QED
      BY <1>1, <3>1, DoneAt, HostAssumption
  <2> QED
    BY <2>1, FitTypes DEF DoneInv, LinkDone
<1>7. Remove(DbHost, {m})
  <2>1. Newest(releases[DbHost]) \ {current[DbHost]} = {m}
    BY <1>5, <1>6 DEF Names
  <2> QED
    BY <2>1 DEF Archive
<1>8. /\ Names' = Names \ {m}
      /\ \A r \in Names' : Src(r)' = Src(r) /\ dump'[r] = dump[r]
                           /\ newer'[DbHost][r] = newer[DbHost][r] \ {m}
  BY <1>7, DbDeleted
<1>9. \A c \in Names' : c <= rel /\ c \in Names /\ c # m
  BY <1>5, <1>8
<1>10. RollbackFits(n)'
  <2>1. rel \in Names' /\ rel \in Newest(Names')
    BY <1>3, <1>5, <1>8, <1>9 DEF Newest
  <2> QED
    BY <1>0, <1>1, <1>2, <1>3, <1>8, <2>1 DEF RollbackFits
<1>11. DumpsFit'
  <2> SUFFICES ASSUME NEW a \in Names', NEW b \in Names', Follows(Names', a, b),
                      dump'[b].form # "none"
               PROVE  dump'[b].schema = Src(a)'
    BY DEF DumpsFit
  <2>1. a \in Names /\ b \in Names /\ a < b
    BY <1>9 DEF Follows
  <2>2. m >= b
    <3>1. b \in Nat /\ m \in Nat /\ rel \in Nat /\ b <= rel /\ rel < m
      BY <1>0, <1>3, <1>5, <1>9
    <3> QED
      BY <3>1
  <2>3. Follows(Names, a, b)
    BY <1>8, <2>1, <2>2 DEF Follows
  <2> QED
    BY <1>0, <1>8, <2>1, <2>3 DEF FitsOf, DumpsFit
<1>12. Packed(n)'
  <2> SUFFICES ASSUME NEW b \in Names', b # 1 PROVE dump'[b].form = "gz"
    BY DEF Packed
  <2>1. ~(b > rel)
    <3>1. b \in Nat /\ rel \in Nat /\ b <= rel
      BY <1>0, <1>3, <1>9
    <3> QED
      BY <3>1
  <2> QED
    BY <1>0, <1>2, <1>8, <1>9, <2>1 DEF FitsOf, Packed
<1>13. NamesInOrder(n)'
  <2> SUFFICES ASSUME NEW r \in Names', NEW s \in Names'
               PROVE  s \in newer'[DbHost][r] <=> s > r
    BY DEF NamesInOrder
  <2>1. s \in newer[DbHost][r] <=> s > r
    BY <1>0, <1>9 DEF FitsOf, NamesInOrder
  <2> QED
    BY <1>8, <1>9, <2>1
<1> QED
  BY <1>2, <1>10, <1>11, <1>12, <1>13 DEF FitsOf, Settled, DeployFits

(***************************************************************************)
(* Steps of the other servers.                                             *)
(***************************************************************************)
\* What another server does changes nothing on the database server.
LEMMA OthersApart ==
  ASSUME FitInv, NEW o \in Operators, NEW s, NEW h \in Hosts \ {DbHost}, Acts(o, s, h)
  PROVE  Unchanged /\ current'[DbHost] = current[DbHost]
<1>0. h \in Hosts /\ h # DbHost /\ h # Deployer /\ DbHost \in Hosts
      /\ current \in [Hosts -> Ids]
  BY HostAssumption, FitTypes
<1>1. CASE Copy(o, h)
  BY <1>0, <1>1, Copied DEF Copy, Unchanged, dataVars
<1>2. CASE Cleanup(o, h) \/ Archive(o, h)
  <2>1. /\ \E gone : Remove(h, gone)
        /\ current' = current /\ db' = db
    BY <1>2 DEF Cleanup, Archive
  <2> QED
    BY <1>0, <2>1, Deleted DEF Unchanged
<1>3. CASE Link(o, h)
  BY <1>0, <1>3 DEF Link, Unchanged, dataVars
<1>4. CASE \/ Rsync(o, h) \/ Aliases(o, h) \/ LinkWeb(o, h) \/ Settings(o, h) \/ Ban(o, h)
           \/ Pick(o, h)
  BY <1>4 DEF Rsync, Aliases, LinkWeb, Settings, Ban, Pick, Unchanged, diskVars, dataVars
<1> QED
  BY <1>0, <1>1, <1>2, <1>3, <1>4 DEF Acts

\* It finds the release that the database server has found.
LEMMA PicksSame ==
  ASSUME FitInv, [Next]_vars, NEW o \in Operators, NEW h \in Hosts \ {DbHost}, Pick(o, h),
         NEW n, n = DbRun(runs'[o]), Waits(o, "pick", n),
         Put(DbRun(runs[o])) \/ Picked(DbRun(runs[o]))
  PROVE  n.rel = DbRun(runs[o]).rel
<1> PICK m : m = DbRun(runs[o])
  OBVIOUS
<1>0. FitsOf(m) /\ Names \in SUBSET Ids /\ runs[o] \in Run
  BY FitTypes DEF FitInv, Fits
<1>1. Running(o) /\ runs[o].at = "pick"
  BY DEF Pick, At
<1>2. runs[o].cmd = "rollback"
  <2>1. runs[o].cmd \in {"deploy", "rollback"} /\ runs[o].at \in DOMAIN After[runs[o].cmd]
    BY <1>1, FitTypes, DidPlace DEF Running
  <2> QED
    BY <1>1, <2>1 DEF After
<1>3. m.cmd = "rollback" /\ m.at \in {"pick", "gunzip"}
  <2>1. After["rollback"]["pick"] = "gunzip"
    BY DEF After
  <2>2. m.cmd = runs[o].cmd /\ m.at \in {runs[o].at, After[runs[o].cmd][runs[o].at]}
    BY <1>0, DbRunFields
  <2> QED
    BY <1>1, <1>2, <2>1, <2>2
<1>4. Picked(m) /\ ~Archived(m)
  BY <1>3 DEF Put, Archived
<1>5. PICK k \in Newest(Names) : Follows(Names, m.rel, k)
  BY <1>0, <1>4 DEF FitsOf, RollbackFits, Reverts
<1>6. releases[h] = Names
  BY <1>1, SameNames
<1>7. PICK r \in Names : Cardinality(newer[h][r]) = 1 /\ n.rel = r
  BY <1>6, PickedName, NextFields
<1>8. \A s \in Names : s \in newer[h][r] <=> s > r
  BY <1>6, <1>7 DEF FitInv, OtherOrder
<1>9. PICK l \in Newest(Names) : Follows(Names, r, l)
  BY <1>6, <1>7, <1>8, SecondByName
<1>10. r = m.rel
  BY <1>0, <1>5, <1>9, FollowsOnce
<1> QED
  BY <1>7, <1>10

\* So the run is for the database server what it was.
LEMMA WaitFits ==
  ASSUME FitInv, [Next]_vars, NEW o \in Operators, NEW s, NEW h \in Hosts \ {DbHost},
         Acts(o, s, h), NEW n, n = DbRun(runs'[o]), Waits(o, s, n)
  PROVE  FitsOf(n)'
<1> PICK m : m = DbRun(runs[o])
  OBVIOUS
<1>1. FitsOf(m)
  BY DEF FitInv, Fits
<1>2. n.cmd = m.cmd /\ n.at = m.at /\ n.last = m.last /\ Going(m) /\ Going(n)
  BY DEF Waits
<1>3. Put(m) \/ Picked(m) => n.rel = m.rel
  <2>1. CASE s = "pick"
    <3>1. Pick(o, h)
      BY <2>1 DEF Acts
    <3> QED
      BY <2>1, <3>1, PicksSame
  <2>2. CASE s # "pick"
    BY <2>2 DEF Waits
  <2> QED
    BY <2>1, <2>2
<1>4. Unchanged /\ current'[DbHost] = current[DbHost]
  BY OthersApart
<1> QED
  BY <1>1, <1>2, <1>3, <1>4, SameFits

(***************************************************************************)
(* Every step.                                                             *)
(***************************************************************************)
\* The hypotheses of the theorems.
Plain == TakeTurns /\ OneOperator /\ NothingFails /\ OwnSettings /\ StagesShipped /\ NumSites = 1

\* A run that stops before it has put or picked a release leaves things as they were.
LEMMA StopFits ==
  ASSUME FitInv, Plain, NEW o \in Operators, Stop(o),
         UNCHANGED <<releases, code, newer, current, dump, db>>,
         Running(o) => ~Put(DbRun(runs[o])) /\ ~Picked(DbRun(runs[o]))
  PROVE  Fits'
<1> PICK n : n = [IdleRun EXCEPT !.status = "failed"]
  OBVIOUS
<1>1. n.status = "failed"
  BY DEF IdleRun
<1>2. ~Put(n) /\ ~Picked(n) /\ Unchanged
  BY <1>1 DEF Put, Picked, Going, Unchanged
<1>3. FitsOf(n)'
  BY <1>2, RestFits
<1>4. n = DbRun(runs'[o])
  <2>1. runs'[o] = n
    BY FitTypes DEF Stop
  <2> QED
    BY <1>1, <2>1 DEF DbRun
<1> QED
  BY <1>3, <1>4, OnlyRunFits DEF Plain

\* No other run stops.
LEMMA StopsFit ==
  ASSUME FitInv, Plain, NEW o \in Operators, Stop(o), Running(o), Stops(o)
  PROVE  Fits'
<1>1. Refuse(o)
  BY Works, NotFailing DEF Plain, Stops, Abort, CopyBreaks
<1>2. /\ Refused(o)
      /\ UNCHANGED <<releases, code, newer, current, dump, db>>
  BY <1>1 DEF Refuse, diskVars, dataVars
<1> QED
  BY <1>2, NoStop, StopFits DEF Plain

\* So does a run that starts.
LEMMA StartFits ==
  ASSUME FitInv, Plain, NEW o \in Operators, NEW c \in Commands, Start(o, c)
  PROVE  Fits'
<1> PICK n : n = [cmd |-> c, at |-> First[c], todo |-> HostsOf(First[c]),
                  rel |-> NoId, last |-> NoId, status |-> "running"]
  OBVIOUS
<1>1. n.cmd = c /\ n.at = First[c] /\ n.todo = HostsOf(n.at)
  OBVIOUS
<1>2. c \in {"deploy", "rollback"}
  BY CommandAssumption DEF Plain, TakeTurns, CommandNames
<1>3. ~Put(n) /\ ~Picked(n)
  BY <1>1, <1>2 DEF Put, Picked, PutSteps, First
<1>4. ~Running(o) /\ Unchanged /\ current' = current /\ runs' = [runs EXCEPT ![o] = n]
  BY DEF Start, Unchanged, diskVars, dataVars
<1>5. FitsOf(n)'
  BY <1>3, <1>4, RestFits
<1>6. n = DbRun(runs'[o])
  <2>1. runs'[o] = n
    BY <1>4, FitTypes
  <2> QED
    BY <1>1, <2>1 DEF DbRun
<1> QED
  BY <1>5, <1>6, OnlyRunFits DEF Plain

\* Every step that the database server sees.
LEMMA StepFits ==
  ASSUME FitInv, Plain, [Next]_vars, NEW o \in Operators, NEW s, NEW h, Acts(o, s, h),
         h = DbHost \/ DbHost \notin HostsOf(s),
         NEW n, n = DbRun(runs'[o]), Steps(o, s, n)
  PROVE  FitsOf(n)'
<1>0. s \in {"rsync", "copy", "aliases", "link", "cleanup", "pick", "archive"} => h = DbHost
  BY HostAssumption DEF HostsOf
<1>1. CASE s \in {"newpath", "stage", "build", "rsync"}
  <2>1. Unchanged /\ current' = current
    BY <1>1 DEF Acts, NewPath, Stage, Build, Rsync, Unchanged, diskVars, dataVars
  <2> QED
    BY <1>1, <2>1, EarlyFits
<1>2. CASE s \in {"aliases", "link", "web", "settings", "ban"}
  <2>1. Unchanged
    BY <1>2 DEF Acts, Aliases, Link, LinkWeb, Settings, Ban, Unchanged, diskVars, dataVars
  <2> QED
    BY <1>2, <2>1, LaterFits DEF Linking
<1>3. CASE s = "copy"
  BY <1>0, <1>3, CopyFits DEF Acts
<1>4. CASE s = "dump"
  BY <1>4, DumpTakenFits, DumpSkippedFits DEF Acts, Plain
<1>5. CASE s = "updatedb"
  BY <1>5, UpdatesDoneFits DEF Acts
<1>6. CASE s = "cleanup"
  BY <1>0, <1>6, CleanupFits DEF Acts
<1>7. CASE s = "pick"
  BY <1>0, <1>7, PickFits DEF Acts
<1>8. CASE s = "gunzip"
  BY <1>8, GunzipFits DEF Acts
<1>9. CASE s = "drop"
  BY <1>9, DropFits DEF Acts
<1>10. CASE s = "import"
  BY <1>10, ImportFits DEF Acts
<1>11. CASE s = "archive"
  BY <1>0, <1>11, ArchiveFits DEF Acts
<1> QED
  BY <1>1, <1>2, <1>3, <1>4, <1>5, <1>6, <1>7, <1>8, <1>9, <1>10, <1>11 DEF Acts

\* Every step of a run.
LEMMA ActFits ==
  ASSUME FitInv, Plain, [Next]_vars, NEW o \in Operators, NEW s, NEW h, Acts(o, s, h)
  PROVE  Fits'
<1>1. PICK n : /\ n = DbRun(runs'[o])
               /\ \/ Steps(o, s, n) /\ (h = DbHost \/ DbHost \notin HostsOf(s))
                  \/ Waits(o, s, n) /\ h # DbHost /\ h \in Hosts
  BY DbMove
<1>2. CASE Steps(o, s, n) /\ (h = DbHost \/ DbHost \notin HostsOf(s))
  <2>1. FitsOf(n)'
    BY <1>1, <1>2, StepFits
  <2> QED
    BY <1>1, <2>1, OnlyRunFits DEF Plain
<1>3. CASE Waits(o, s, n) /\ h # DbHost /\ h \in Hosts
  <2>1. FitsOf(n)'
    BY <1>1, <1>3, WaitFits
  <2> QED
    BY <1>1, <2>1, OnlyRunFits DEF Plain
<1> QED
  BY <1>1, <1>2, <1>3

\* No run moves, and nothing that Fits speaks of.
LEMMA StillFits ==
  ASSUME FitInv, Plain, runs' = runs, Unchanged, current' = current
  PROVE  Fits'
<1> SUFFICES ASSUME NEW o \in Operators PROVE Fits'
  BY DEF Fits
<1> PICK n : n = DbRun(runs[o])
  OBVIOUS
<1>1. FitsOf(n)
  BY DEF FitInv, Fits
<1>2. FitsOf(n)'
  BY <1>1, SameFits
<1> QED
  BY <1>2, OnlyRunFits DEF Plain

\* Every step of the system.
LEMMA FitsStep ==
  ASSUME FitInv, Plain, [Next]_vars
  PROVE  Fits'
<1>1. ASSUME NEW o \in Operators, LocalStep(o) PROVE Fits'
  <2>1. \E s, h : Acts(o, s, h)
    BY <1>1 DEF LocalStep, Acts
  <2> QED
    BY <2>1, ActFits
<1>2. ASSUME NEW o \in Operators, DbStep(o) PROVE Fits'
  <2>1. (\E s, h : Acts(o, s, h)) \/ \E s \in Sites : UpdateHook(o, s)
    BY <1>2 DEF DbStep, Acts
  <2>2. ASSUME NEW s \in Sites, UpdateHook(o, s) PROVE Fits'
    <3>1. PICK n : runs' = runs /\ n = DbRun(runs[o]) /\ FitsOf(n)'
      BY <2>2, UpdateHookFits DEF Plain
    <3> QED
      BY <3>1, OnlyRunFits DEF Plain
  <2> QED
    BY <2>1, <2>2, ActFits
<1>3. ASSUME NEW o \in Operators, NEW h \in Hosts, HostStep(o, h) PROVE Fits'
  <2>1. (\E s : Acts(o, s, h)) \/ (Stop(o) /\ Running(o) /\ Stops(o)) \/ RemoveWeb(o, h)
    BY <1>3 DEF HostStep, Acts, CopyBreaks, Settings, Stops, At
  <2>2. CASE RemoveWeb(o, h)
    BY <2>2, StillFits DEF RemoveWeb, Unchanged, dataVars
  <2> QED
    BY <2>1, <2>2, ActFits, StopsFit
<1>4. ASSUME NEW o \in Operators, Refuse(o) \/ Abort(o) PROVE Fits'
  <2>1. Stop(o) /\ Running(o) /\ Stops(o)
    BY <1>4 DEF Refuse, Abort, Stops
  <2> QED
    BY <2>1, StopsFit
<1>5. ASSUME NEW o \in Operators, NEW c \in Commands, Start(o, c) PROVE Fits'
  BY <1>5, StartFits
<1>6. ASSUME Push \/ (\E v \in VarnishHosts : View(v)) \/ UNCHANGED vars PROVE Fits'
  BY <1>6, StillFits DEF Push, View, vars, Unchanged, diskVars, dataVars
<1>7. ASSUME NEW s \in Sites, Edit(s) PROVE Fits'
  <2>1. db'[1].up = db[1].up /\ db'[1].schema = db[1].schema
    <3>1. db[1] \in Database /\ db \in [Sites -> Database] /\ 1 \in Sites
      BY FitTypes
    <3> QED
      BY <1>7, <3>1 DEF Edit, Database
  <2> QED
    BY <1>7, <2>1, StillFits DEF Edit, Unchanged, diskVars
<1> QED
  BY <1>1, <1>2, <1>3, <1>4, <1>5, <1>6, <1>7 DEF Next, Step

\* The first release has no other before it.
LEMMA InitFit == Init => FitInv
<1> SUFFICES ASSUME Init PROVE FitInv
  OBVIOUS
<1>0. DbHost \in Hosts /\ 1 \in Sites /\ 1 \in Ids
  BY HostAssumption, BoundAssumption DEF Sites, Ids
<1>1. \A o \in Operators : runs[o].status = "idle"
  BY DEF Init, IdleRun
<1>2. /\ Names = {1} /\ Src(1) = 0 /\ code[DbHost][1] = FirstTree /\ newer[DbHost][1] = {}
      /\ db[1].up /\ db[1].schema = 0 /\ current[DbHost] = 1
      /\ staged = FirstTree /\ cache[DbHost] = FirstTree /\ head = 0
  BY <1>0 DEF Init, Names, Src, FirstTree
<1>3. TodoOk
  BY <1>1 DEF TodoOk, TodoOf
<1>4. AllBoot /\ SourcesGrow
  <2>1. \A h \in Hosts : cache[h] = FirstTree /\ releases[h] = {1} /\ code[h][1] = FirstTree
    BY <1>0 DEF Init
  <2> QED
    BY <1>2, <2>1 DEF AllBoot, SourcesGrow, FirstTree
<1>7. Agree
  <2>1. \A o \in Operators : AgreeOn(runs[o], {1})
    BY <1>1 DEF AgreeOn, Reached, Init
  <2> QED
    BY <1>0, <2>1 DEF Agree
<1>8. OtherOrder
  <2>1. \A h \in Hosts : releases[h] = {1} /\ newer[h][1] = {}
    BY <1>0 DEF Init
  <2> QED
    BY <2>1 DEF OtherOrder
<1>5. Newest(Names) = {1} /\ \A a, b \in Names : ~(a < b)
  BY <1>2 DEF Newest
<1>6. ASSUME NEW o \in Operators PROVE FitsOf(DbRun(runs[o]))
  <2> PICK run : run = runs[o]
    OBVIOUS
  <2>0. DbRun(runs[o]) = run
    BY <1>1 DEF DbRun
  <2>1. ~Put(run) /\ ~Picked(run)
    BY <1>1 DEF Put, Picked, Going
  <2>2. Settled(run) /\ DeployFits(run) /\ RollbackFits(run)
    BY <1>2, <1>5, <2>1 DEF Settled, DeployFits, RollbackFits
  <2>3. DumpsFit /\ Packed(run)
    BY <1>2, <1>5 DEF DumpsFit, Follows, Packed
  <2>4. NamesInOrder(run)
    BY <1>2, <2>1 DEF NamesInOrder
  <2> QED
    BY <2>0, <2>2, <2>3, <2>4 DEF FitsOf
<1> QED
  BY <1>3, <1>4, <1>6, <1>7, <1>8, InitUndo DEF FitInv, Fits

\* The invariant is inductive.
LEMMA FitStep == FitInv /\ Plain /\ [Next]_vars => FitInv'
<1> SUFFICES ASSUME FitInv, Plain, [Next]_vars PROVE FitInv'
  OBVIOUS
<1>1. UndoInv'
  BY UndoStep DEF FitInv, Plain
<1>2. TodoOk'
  BY TodoStep DEF Plain
<1>3. AllBoot' /\ SourcesGrow'
  BY TreesStep DEF Plain
<1>4. Agree' /\ OtherOrder'
  BY AgreeStep, OtherOrderStep DEF Plain
<1> QED
  BY <1>1, <1>2, <1>3, <1>4, FitsStep DEF FitInv

\* At the end of a run the release it put or picked is live.
LEMMA FitIsFit == FitInv /\ NumSites = 1 => SchemaFitsCode
<1> SUFFICES ASSUME FitInv, NumSites = 1, NEW o \in Operators, NEW s \in Sites,
                    Succeeded(o, {"deploy", "rollback"})
             PROVE  db[s].schema = code[DbHost][current[DbHost]].src
  BY DEF SchemaFitsCode
<1> PICK run : run = runs[o]
  OBVIOUS
<1>1. s = 1
  BY DEF Sites
<1>2. /\ run.status = "ok" /\ run.cmd \in {"deploy", "rollback"} /\ run.at = "end"
      /\ FitsOf(run)
  BY FitTypes, DbRunFields DEF Succeeded, OkAtEnd, FitInv, Fits
<1>3. current[DbHost] = run.rel
  <2>1. "end" \in DOMAIN Place[run.cmd] /\ "end" \in Published
    BY <1>2 DEF Place, Published
  <2>2. Did(run, "link", DbHost)
    BY <1>2, <2>1, DoneAt, HostAssumption
  <2> QED
    BY <2>2, FitTypes DEF DoneInv, LinkDone
<1>4. db[1].schema = Src(run.rel)
  <2>1. CASE run.cmd = "deploy"
    <3>1. Put(run) /\ Updated(run)
      BY <1>2, <2>1 DEF Put, Updated, Going, PutSteps
    <3> QED
      BY <1>2, <3>1 DEF FitsOf, DeployFits
  <2>2. CASE run.cmd = "rollback"
    <3>1. Picked(run) /\ Imported(run)
      BY <1>2, <2>2 DEF Picked, Imported, Unpacked, Going
    <3> QED
      BY <1>2, <3>1 DEF FitsOf, RollbackFits
  <2> QED
    BY <1>2, <2>1, <2>2
<1> QED
  BY <1>1, <1>3, <1>4 DEF Src

\* With one site and any number of servers, when one operator runs cap, nobody runs
\* deploy:cleanup on its own, every revision ships the settings of the stage and its
\* own, and only git and the build may fail: after every deploy and every rollback
\* that reports success the database has the schema of the code that is live,
\* whatever the sequence of commands before, whatever :keep_releases is.
THEOREM SchemaFitsCodeSafe ==
  ASSUME TakeTurns, OneOperator, NothingFails, OwnSettings, StagesShipped, NumSites = 1
  PROVE  Spec => []SchemaFitsCode
<1>1. FitInv /\ [Next]_vars => FitInv'
  BY FitStep DEF Plain
<1>2. FitInv => SchemaFitsCode
  BY FitIsFit
<1> QED
  BY <1>1, <1>2, InitFit, PTL DEF Spec

\* Between two commands "ls -t" is the order of the names, and the servers have the same.
LEMMA FitIsReady == FitInv => RollbackReady
<1> SUFFICES ASSUME FitInv, KeepReleases > 1, NEW o \in Operators, Succeeded(o, {"deploy"})
             PROVE  \E r \in Ids : \A h \in Hosts :
                      r \in releases[h] /\ Cardinality(newer[h][r]) = 1
  BY DEF RollbackReady
<1>0. /\ ReadyInv /\ Names \in SUBSET Ids /\ DbHost \in Hosts
      /\ runs[o].status = "ok" /\ runs[o].cmd = "deploy"
  BY FitTypes DEF FitInv, UndoInv, Succeeded
<1>1. \A h \in Hosts : releases[h] = Names
  BY <1>0, SameNames DEF Running
<1>2. ASSUME NEW h \in Hosts
      PROVE  \E q \in Names : newer[h][q] = {runs[o].rel}
  BY <1>0, <1>1, <1>2, ReadyIsReady DEF ReadyOnHosts, ReadyOnHost
<1>3. ASSUME NEW h \in Hosts, NEW q \in Names PROVE \A s \in Names : s \in newer[h][q] <=> s > q
  <2>1. CASE h = DbHost
    <3> PICK run : run = runs[o]
      OBVIOUS
    <3>1. DbRun(runs[o]) = run
      BY <1>0 DEF DbRun
    <3>2. FitsOf(run) /\ ~Picked(run)
      BY <1>0, <3>1 DEF FitInv, Fits, Picked
    <3> QED
      BY <1>3, <2>1, <3>2 DEF FitsOf, NamesInOrder
  <2>2. CASE h # DbHost
    BY <1>1, <1>3, <2>2 DEF FitInv, OtherOrder
  <2> QED
    BY <2>1, <2>2
<1>4. ASSUME NEW h \in Hosts, NEW q \in Names, newer[h][q] = {runs[o].rel}
      PROVE  Cardinality(newer[h][q]) = 1 /\ \E m \in Newest(Names) : Follows(Names, q, m)
  <2>1. Cardinality(newer[h][q]) = 1
    BY <1>4, FS_Singleton
  <2>2. releases[h] = Names
    BY <1>1
  <2>3. \A s \in Names : s \in newer[h][q] <=> s > q
    BY <1>3
  <2>4. \E m \in Newest(releases[h]) : Follows(releases[h], q, m)
    BY <2>1, <2>2, <2>3, SecondByName
  <2> QED
    BY <2>1, <2>2, <2>4
<1>5. PICK r \in Names : newer[DbHost][r] = {runs[o].rel}
  BY <1>0, <1>2
<1>6. ASSUME NEW h \in Hosts PROVE r \in releases[h] /\ Cardinality(newer[h][r]) = 1
  <2>1. PICK q \in Names : newer[h][q] = {runs[o].rel}
    BY <1>2
  <2>2. PICK m \in Newest(Names) : Follows(Names, r, m)
    BY <1>0, <1>4, <1>5
  <2>3. PICK k \in Newest(Names) : Follows(Names, q, k)
    BY <1>4, <2>1
  <2>4. r = q
    BY <1>0, <2>2, <2>3, FollowsOnce
  <2> QED
    BY <1>1, <1>4, <2>1, <2>4
<1> QED
  BY <1>0, <1>6

\* On any number of servers, under the same hypotheses: after a deploy that ends well
\* deploy:rollback_release_path finds the same release whichever server is the last to
\* look, so it does not matter that each of them sets release_path.
THEOREM RollbackReadyAgreed ==
  ASSUME TakeTurns, OneOperator, NothingFails, OwnSettings, StagesShipped, NumSites = 1
  PROVE  Spec => []RollbackReady
<1>1. FitInv /\ [Next]_vars => FitInv'
  BY FitStep DEF Plain
<1> QED
  BY <1>1, FitIsReady, InitFit, PTL DEF Spec
===============================================================================
