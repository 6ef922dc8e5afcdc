---------------------------- MODULE SuccessProofs ----------------------------
(***************************************************************************)
(* What a command that reports success promises, on any number of hosts    *)
(* and sites, with any failures, when one operator runs cap and nobody     *)
(* runs deploy:cleanup on its own: the release is live and works, no more  *)
(* releases are kept than asked for, and no stale page is left in Varnish. *)
(*                                                                         *)
(* These properties speak of the end of a run; nothing in them says how it *)
(* gets there, so none is inductive.  The invariants here say of each step *)
(* s what is the case on host h from the moment h has done it (Did), to    *)
(* the end of the run and after it, until the next command starts.  Most   *)
(* steps of a run are neither s nor do they touch what s has done: Moved   *)
(* and MovedDid say once how a run and Did change, DidBefore what has been *)
(* done by the time a host is at a step, and WhoChangesDisk and            *)
(* WhoChangesRest which steps touch which variables.  A proof that a Did   *)
(* invariant is kept then deals with step s itself and with the few steps  *)
(* that write the same variables.                                          *)
(***************************************************************************)
EXTENDS DeploymentProofs, WellFoundedInduction

\* One person or one Jenkins job runs cap: with two, the success of one may be
\* followed by the failure of the other.
OneOperator == \A o, p \in Operators : o = p

\* The place of each step in its plan.
Place ==
  [deploy |->
     [newpath |-> 1, stage |-> 2, build |-> 3, rsync |-> 4, copy |-> 5, dump |-> 6,
      aliases |-> 7, link |-> 8, web |-> 9, settings |-> 10, updatedb |-> 11,
      ban |-> 12, cleanup |-> 13, end |-> 14],
   rollback |->
     [pick |-> 1, gunzip |-> 2, drop |-> 3, import |-> 4, dump |-> 5, aliases |-> 6,
      link |-> 7, web |-> 8, settings |-> 9, updatedb |-> 10, archive |-> 11,
      end |-> 12]]

\* Host h has done step s of the run, which goes on or ended well.
Did(run, s, h) ==
  /\ run.status \in {"running", "ok"} /\ run.cmd \in {"deploy", "rollback"}
  /\ s \in DOMAIN After[run.cmd] /\ h \in HostsOf(s)
  /\ \/ Place[run.cmd][run.at] > Place[run.cmd][s]
     \/ run.at = s /\ h \notin run.todo

LEMMA PlaceNext ==
  ASSUME NEW c \in {"deploy", "rollback"}, NEW s \in DOMAIN After[c]
  PROVE  /\ Place[c][s] \in Nat
         /\ Place[c][First[c]] <= Place[c][s]
         /\ Place[c][After[c][s]] = Place[c][s] + 1
         /\ \A t \in DOMAIN After[c] : Place[c][t] = Place[c][s] => t = s
<1>1. CASE c = "deploy"
  <2>1. /\ After[c] = After["deploy"] /\ Place[c] = Place["deploy"]
        /\ First[c] = "newpath"
    BY <1>1 DEF First
  <2> QED
    BY <2>1 DEF After, Place
<1>2. CASE c = "rollback"
  <2>1. /\ After[c] = After["rollback"] /\ Place[c] = Place["rollback"]
        /\ First[c] = "pick"
    BY <1>2 DEF First
  <2> QED
    BY <2>1 DEF After, Place
<1> QED
  BY <1>1, <1>2

\* Host h does the step its run is at: the run stays at it with the other hosts, or
\* h was the last and the run moves on.
Moved(o, h) ==
  /\ Running(o) /\ h \in runs[o].todo
  /\ runs[o].cmd \in {"deploy", "rollback"} /\ runs[o].at \in DOMAIN After[runs[o].cmd]
  /\ \E n : /\ runs' = [runs EXCEPT ![o] = n]
            /\ n.cmd = runs[o].cmd
            /\ runs[o].at \notin {"newpath", "pick"} => n.rel = runs[o].rel
            /\ runs[o].at # "gunzip" => n.last = runs[o].last
            /\ \/ /\ n.at = runs[o].at /\ n.todo = runs[o].todo \ {h}
                  /\ n.todo # {} /\ n.status = "running"
               \/ /\ n.at = After[runs[o].cmd][runs[o].at] /\ n.todo = HostsOf(n.at)
                  /\ runs[o].todo \ {h} = {}
                  /\ n.status = IF n.at = "end" THEN "ok" ELSE "running"

\* The step s of o's run, done by h.
Acts(o, s, h) ==
  \/ s = "newpath" /\ h = Deployer /\ NewPath(o)
  \/ s = "stage" /\ h = Deployer /\ Stage(o)
  \/ s = "build" /\ h = Deployer /\ Build(o)
  \/ s = "dump" /\ h = DbHost /\ (DumpTaken(o) \/ DumpSkipped(o))
  \/ s = "gunzip" /\ h = DbHost /\ Gunzip(o)
  \/ s = "drop" /\ h = DbHost /\ DropTables(o)
  \/ s = "import" /\ h = DbHost /\ Import(o)
  \/ s = "updatedb" /\ h = DbHost /\ UpdatesDone(o)
  \/ /\ h \in Hosts
     /\ \/ s = "rsync" /\ Rsync(o, h)
        \/ s = "copy" /\ Copy(o, h)
        \/ s = "aliases" /\ Aliases(o, h)
        \/ s = "link" /\ Link(o, h)
        \/ s = "web" /\ LinkWeb(o, h)
        \/ s = "settings" /\ HasStageFile(h) /\ Settings(o, h)
        \/ s = "ban" /\ Ban(o, h)
        \/ s = "cleanup" /\ Cleanup(o, h)
        \/ s = "archive" /\ Archive(o, h)
        \/ s = "pick" /\ Pick(o, h)

LEMMA DoneMoved ==
  ASSUME LiveInv, NEW o \in Operators, Running(o), NEW h \in runs[o].todo,
         NEW r, NEW l,
         NEW n, \/ n = Done(runs[o], h)
                \/ runs[o].at = "gunzip" /\ n = [Done(runs[o], h) EXCEPT !.last = l]
                \/ /\ runs[o].at \in {"newpath", "pick"}
                   /\ n = [Done(runs[o], h) EXCEPT !.rel = r],
         runs' = [runs EXCEPT ![o] = n]
  PROVE  Moved(o, h)
<1> DEFINE run == runs[o]
<1>1. /\ run \in Run /\ RunOk(run) /\ run.status = "running" /\ RunLive(run)
  BY DEF LiveInv, TypeInv, TypeOK, RunsOk, RunsLive, Running
<1>2. run.at \in DOMAIN After[run.cmd] /\ run.cmd \in {"deploy", "rollback"}
  BY <1>1 DEF RunOk, RunLive
<1> PICK old : old = Done(run, h)
  OBVIOUS
<1>3. old \in Run /\ old.cmd = run.cmd /\ old.rel = run.rel /\ old.last = run.last
  BY <1>1, DoneType
<1>4. /\ n.cmd = run.cmd /\ n.at = old.at /\ n.todo = old.todo /\ n.status = old.status
      /\ run.at \notin {"newpath", "pick"} => n.rel = run.rel
      /\ run.at # "gunzip" => n.last = run.last
  BY <1>3 DEF Run
<1>5. CASE run.todo \ {h} # {}
  <2>1. old = [run EXCEPT !.todo = run.todo \ {h}]
    BY <1>5 DEF Done
  <2>2. old.at = run.at /\ old.todo = run.todo \ {h} /\ old.status = "running"
    BY <1>1, <2>1 DEF Run
  <2> QED
    BY <1>2, <1>4, <1>5, <2>2 DEF Moved
<1>6. CASE run.todo \ {h} = {}
  <2> DEFINE next == After[run.cmd][run.at]
             st == IF next = "end" THEN "ok" ELSE "running"
  <2>1. old = [run EXCEPT !.at = next, !.todo = HostsOf(next), !.status = st]
    BY <1>6 DEF Done
  <2> HIDE DEF next, st
  <2>2. old.at = next /\ old.todo = HostsOf(next) /\ old.status = st
    BY <1>1, <2>1 DEF Run
  <2>3. n.at = next /\ n.todo = HostsOf(n.at) /\ n.status = IF n.at = "end" THEN "ok" ELSE "running"
    BY <1>4, <2>2 DEF st
  <2>4. next = After[runs[o].cmd][runs[o].at]
    BY DEF next
  <2> QED
    BY <1>2, <1>4, <1>6, <2>3, <2>4 DEF Moved
<1> QED
  BY <1>5, <1>6

\* A step of a run that ends no run leaves it moved by the host that did it.
LEMMA ActsMove ==
  ASSUME LiveInv, NEW o \in Operators, NEW s, NEW h, Acts(o, s, h)
  PROVE  s = runs[o].at /\ Moved(o, h)
<1>0. runs \in [Operators -> Run]
  BY DEF LiveInv, TypeInv, TypeOK
<1>1. /\ s = runs[o].at /\ Running(o) /\ h \in runs[o].todo
  BY DEF Acts, At, NewPath, Stage, Build, DumpTaken, DumpSkipped, Gunzip, DropTables, Import,
         UpdatesDone, CanUpdate, Rsync, Copy, Aliases, Link, LinkWeb, Settings, Ban, Cleanup,
         Archive, Pick
<1>2. CASE s = "newpath" \/ s = "pick"
  <2>1. PICK r : AdvanceTo(o, h, r)
    BY <1>2 DEF Acts, NewPath, Pick
  <2> QED
    BY <1>0, <1>1, <1>2, <2>1, DoneMoved DEF AdvanceTo
<1>3. CASE s = "gunzip"
  <2>1. PICK l : runs' = [runs EXCEPT ![o] = [Done(runs[o], h) EXCEPT !.last = l]]
    BY <1>0, <1>3 DEF Acts, Gunzip
  <2> PICK n : n = [Done(runs[o], h) EXCEPT !.last = l]
    OBVIOUS
  <2>2. runs' = [runs EXCEPT ![o] = n] /\ runs[o].at = "gunzip"
    BY <1>1, <1>3, <2>1
  <2> QED
    BY <1>1, <2>2, DoneMoved
<1>4. CASE s \notin {"newpath", "pick", "gunzip"}
  <2>1. Advance(o, h)
    BY <1>4
    DEF Acts, Stage, Build, DumpTaken, DumpSkipped, DropTables, Import,
        UpdatesDone, Rsync, Copy, Aliases, Link, LinkWeb, Settings, Ban, Cleanup, Archive
  <2> QED
    BY <1>0, <1>1, <2>1, DoneMoved DEF Advance
<1> QED
  BY <1>1, <1>2, <1>3, <1>4


\* A run that just started or stopped has done nothing.
Fresh(o) ==
  \E n : /\ runs' = [runs EXCEPT ![o] = n]
         /\ \A s, h : ~Did(n, s, h)
         /\ n.status # "ok"
         /\ n.status = "running" => n.at \in {"newpath", "pick"}

LEMMA StopFresh == ASSUME NEW o, Stop(o) PROVE Fresh(o)
<1> PICK n : n = [IdleRun EXCEPT !.status = "failed"]
  OBVIOUS
<1>1. n.status = "failed"
  BY DEF IdleRun
<1> QED
  BY <1>1 DEF Stop, Fresh, Did

LEMMA StartFresh ==
  ASSUME TakeTurns, NEW o \in Operators, NEW c \in Commands, Start(o, c)
  PROVE  Fresh(o)
<1> DEFINE n == [cmd |-> c, at |-> First[c], todo |-> HostsOf(First[c]),
                 rel |-> NoId, last |-> NoId, status |-> "running"]
<1>0. n.cmd = c /\ n.at = First[c] /\ n.todo = HostsOf(First[c]) /\ n.status = "running"
  OBVIOUS
<1>1. /\ c \in {"deploy", "rollback"} /\ First[c] \in DOMAIN After[c]
      /\ First[c] \in {"newpath", "pick"}
  <2>1. c \in CommandNames /\ c # "cleanup"
    BY CommandAssumption DEF TakeTurns
  <2> QED
    BY <2>1, PlanSteps DEF CommandNames, First
<1>3. runs' = [runs EXCEPT ![o] = n]
  BY DEF Start
<1> HIDE DEF n
<1>2. ASSUME NEW s, NEW h, Did(n, s, h) PROVE FALSE
  <2>1. /\ s \in DOMAIN After[c] /\ h \in HostsOf(s)
        /\ \/ Place[c][First[c]] > Place[c][s]
           \/ First[c] = s /\ h \notin HostsOf(First[c])
    BY <1>0, <1>2 DEF Did
  <2>2. Place[c][First[c]] <= Place[c][s] /\ Place[c][s] \in Nat /\ Place[c][First[c]] \in Nat
    BY <1>1, <2>1, PlaceNext
  <2> QED
    BY <2>1, <2>2
<1> QED
  BY <1>0, <1>1, <1>2, <1>3 DEF Fresh

\* What a step does to the runs: nothing, it starts or stops one, or a host of one
\* does the step the run is at.
LEMMA RunSteps ==
  ASSUME LiveInv, TakeTurns, [Next]_vars
  PROVE  \/ runs' = runs
         \/ \E o \in Operators : Fresh(o)
         \/ \E o \in Operators : \E s, h : Acts(o, s, h)
<1>1. ASSUME NEW o \in Operators, NEW c \in Commands, Start(o, c)
      PROVE  Fresh(o)
  BY <1>1, StartFresh
<1>2. ASSUME NEW o \in Operators, LocalStep(o) PROVE \E s, h : Acts(o, s, h)
  BY <1>2 DEF LocalStep, Acts
<1>3. ASSUME NEW o \in Operators, DbStep(o)
      PROVE  runs' = runs \/ \E s, h : Acts(o, s, h)
  BY <1>3 DEF DbStep, Acts, UpdateHook
<1>4. ASSUME NEW o \in Operators, NEW h \in Hosts, HostStep(o, h)
      PROVE  runs' = runs \/ Fresh(o) \/ \E s : Acts(o, s, h)
  <2>1. CASE CopyBreaks(o, h)
    BY <2>1, StopFresh DEF CopyBreaks
  <2>2. CASE Settings(o, h) /\ ~HasStageFile(h)
    BY <2>2, StopFresh DEF Settings
  <2>3. CASE RemoveWeb(o, h)
    BY <2>3 DEF RemoveWeb
  <2> QED
    BY <1>4, <2>1, <2>2, <2>3 DEF HostStep, Acts
<1>5. ASSUME NEW o \in Operators, Refuse(o) \/ Abort(o) PROVE Fresh(o)
  BY <1>5, StopFresh DEF Refuse, Abort
<1>6. ASSUME \/ Push \/ (\E s \in Sites : Edit(s)) \/ (\E v \in VarnishHosts : View(v))
             \/ UNCHANGED vars
      PROVE  runs' = runs
  BY <1>6 DEF Push, Edit, View, vars
<1> QED
  BY <1>1, <1>2, <1>3, <1>4, <1>5, <1>6 DEF Next, Step

\* What a moved run did before: all it has done now but the step of this move.
LEMMA MovedDid ==
  ASSUME NEW o \in Operators, runs \in [Operators -> Run], NEW g, Moved(o, g),
         NEW s, NEW h, Did(runs'[o], s, h)
  PROVE  /\ s \notin {"newpath", "pick"} => runs'[o].rel = runs[o].rel
         /\ runs'[o].cmd = runs[o].cmd
         /\ Did(runs[o], s, h) \/ (s = runs[o].at /\ h = g)
<1> PICK n : /\ runs' = [runs EXCEPT ![o] = n]
             /\ n.cmd = runs[o].cmd
             /\ runs[o].at \notin {"newpath", "pick"} => n.rel = runs[o].rel
             /\ \/ /\ n.at = runs[o].at /\ n.todo = runs[o].todo \ {g}
                   /\ n.status = "running"
                \/ /\ n.at = After[runs[o].cmd][runs[o].at] /\ n.todo = HostsOf(n.at)
                   /\ runs[o].todo \ {g} = {}
                   /\ n.status = IF n.at = "end" THEN "ok" ELSE "running"
  BY DEF Moved
<1> DEFINE c == runs[o].cmd
           at == runs[o].at
<1>1. /\ runs'[o] = n /\ runs[o].status = "running" /\ c \in {"deploy", "rollback"}
      /\ at \in DOMAIN After[c]
  BY DEF Moved, Running
<1>2. /\ s \in DOMAIN After[c] /\ h \in HostsOf(s)
      /\ Place[c][n.at] > Place[c][s] \/ (n.at = s /\ h \notin n.todo)
  BY <1>1 DEF Did
<1>3. /\ Place[c][s] \in Nat /\ Place[c][at] \in Nat
      /\ Place[c][After[c][at]] = Place[c][at] + 1
      /\ Place[c][s] = Place[c][at] => s = at
  BY <1>1, <1>2, PlaceNext
<1>4. Did(runs[o], s, h) \/ (s = at /\ h = g)
  <2>1. CASE n.at = at /\ n.todo = runs[o].todo \ {g}
    BY <1>1, <1>2, <2>1 DEF Did
  <2>2. CASE n.at = After[c][at] /\ n.todo = HostsOf(n.at) /\ runs[o].todo \ {g} = {}
    <3>1. Place[c][at] >= Place[c][s]
      <4>1. ~(n.at = s /\ h \notin n.todo)
        BY <1>2, <2>2
      <4> PICK i, j, k : i = Place[c][s] /\ j = Place[c][at] /\ k = Place[c][n.at]
        OBVIOUS
      <4>2. i \in Nat /\ j \in Nat /\ k = j + 1 /\ k > i
        BY <1>2, <1>3, <2>2, <4>1
      <4>3. j >= i
        BY <4>2
      <4> QED
        BY <4>3
    <3>2. CASE s = at
      BY <1>1, <1>2, <2>2, <3>2 DEF Did
    <3>3. CASE Place[c][at] > Place[c][s]
      BY <1>1, <1>2, <3>3 DEF Did
    <3> QED
      BY <1>3, <3>1, <3>2, <3>3
  <2> QED
    BY <2>1, <2>2
<1>5. at \in {"newpath", "pick"} => s \in {"newpath", "pick"}
  <2>1. CASE c = "deploy"
    BY <1>1, <1>2, <1>4, <2>1 DEF Did, Place, After
  <2>2. CASE c = "rollback"
    BY <1>1, <1>2, <1>4, <2>2 DEF Did, Place, After
  <2> QED
    BY <1>1, <2>1, <2>2
<1> QED
  BY <1>1, <1>4, <1>5

\* Where a step that is done comes from: it was done before, or it is what this step
\* does; in both cases for the same release.
LEMMA DidBefore ==
  ASSUME LiveInv, TakeTurns, OneOperator, [Next]_vars, NEW o \in Operators,
         NEW s, NEW h, Did(runs'[o], s, h)
  PROVE  /\ s \notin {"newpath", "pick"} => runs'[o].rel = runs[o].rel
         /\ \/ runs'[o].rel = runs[o].rel
            \/ NewPath(o)
            \/ runs[o].cmd = "rollback" /\ \E g \in Hosts : Pick(o, g)
         /\ runs'[o].cmd = runs[o].cmd
         /\ Did(runs[o], s, h) \/ Acts(o, s, h)
<1>1. runs \in [Operators -> Run]
  BY DEF LiveInv, TypeInv, TypeOK
<1>2. CASE runs' = runs
  BY <1>2
<1>3. ASSUME NEW p \in Operators, Fresh(p) PROVE FALSE
  BY <1>1, <1>3 DEF Fresh, OneOperator
<1>4. ASSUME NEW p \in Operators, NEW t, NEW g, Acts(p, t, g)
      PROVE  /\ s \notin {"newpath", "pick"} => runs'[o].rel = runs[o].rel
             /\ \/ runs'[o].rel = runs[o].rel
                \/ NewPath(o)
                \/ runs[o].cmd = "rollback" /\ \E k \in Hosts : Pick(o, k)
             /\ runs'[o].cmd = runs[o].cmd
             /\ Did(runs[o], s, h) \/ Acts(o, s, h)
  <2>1. p = o
    BY DEF OneOperator
  <2>2. t = runs[o].at /\ Moved(o, g)
    BY <1>4, <2>1, ActsMove
  <2>3. \/ runs'[o].rel = runs[o].rel
        \/ NewPath(o)
        \/ runs[o].cmd = "rollback" /\ \E k \in Hosts : Pick(o, k)
    <3>1. runs[o].at \notin {"newpath", "pick"} => runs'[o].rel = runs[o].rel
      BY <1>1, <2>2 DEF Moved
    <3>2. t = "pick" => runs[o].cmd = "rollback"
      BY <2>2 DEF Moved, After
    <3> QED
      BY <1>4, <2>1, <2>2, <3>1, <3>2 DEF Acts
  <2> QED
    BY <1>1, <1>4, <2>1, <2>2, <2>3, MovedDid
<1> QED
  BY <1>2, <1>3, <1>4, RunSteps


(***************************************************************************)
(* Which steps change a variable.                                          *)
(***************************************************************************)
Puts(o, h) == Copy(o, h) \/ CopyBreaks(o, h)
Deletes(o, h) == Cleanup(o, h) \/ Archive(o, h)

LEMMA WhoChangesDisk ==
  ASSUME [Next]_vars
  PROVE  /\ \/ current' = current
            \/ \E o \in Operators, h \in Hosts : Link(o, h)
         /\ \/ webroot' = webroot
            \/ \E o \in Operators, h \in Hosts : RemoveWeb(o, h) \/ LinkWeb(o, h)
         /\ \/ linked' = linked
            \/ \E o \in Operators, h \in Hosts : Settings(o, h) \/ Deletes(o, h)
         /\ \/ releases' = releases /\ code' = code
            \/ \E o \in Operators, h \in Hosts : Puts(o, h) \/ Deletes(o, h)
         /\ \/ newer' = newer
            \/ \E o \in Operators : DumpTaken(o) \/ Gunzip(o)
            \/ \E o \in Operators, h \in Hosts : Puts(o, h) \/ Deletes(o, h)
         /\ \/ dump' = dump
            \/ \E o \in Operators : DumpTaken(o) \/ Gunzip(o)
            \/ \E o \in Operators, h \in Hosts : Deletes(o, h)
<1> USE DEF diskVars, dataVars
<1>1. ASSUME NEW o \in Operators, LocalStep(o)
      PROVE  UNCHANGED <<current, webroot, linked, releases, code, newer, dump>>
  BY <1>1 DEF LocalStep, NewPath, Stage, Build
<1>2. ASSUME NEW o \in Operators, DbStep(o)
      PROVE  /\ UNCHANGED <<current, webroot, linked, releases, code>>
             /\ (dump' = dump /\ newer' = newer) \/ DumpTaken(o) \/ Gunzip(o)
  BY <1>2 DEF DbStep, DumpTaken, DumpSkipped, Gunzip, DropTables, Import, UpdatesDone, UpdateHook
<1>3. ASSUME NEW o \in Operators, NEW h \in Hosts, HostStep(o, h)
      PROVE  /\ current' = current \/ Link(o, h)
             /\ webroot' = webroot \/ RemoveWeb(o, h) \/ LinkWeb(o, h)
             /\ linked' = linked \/ Settings(o, h) \/ Deletes(o, h)
             /\ (releases' = releases /\ code' = code) \/ Puts(o, h) \/ Deletes(o, h)
             /\ newer' = newer \/ Puts(o, h) \/ Deletes(o, h)
             /\ dump' = dump \/ Deletes(o, h)
  BY <1>3 DEF HostStep, Rsync, Copy, CopyBreaks, Aliases, Link, RemoveWeb, LinkWeb, Settings, Ban,
              Pick, Puts, Deletes, Cleanup, Archive
<1>4. ASSUME \/ \E o \in Operators, c \in Commands : Start(o, c)
             \/ \E o \in Operators : Refuse(o) \/ Abort(o)
             \/ Push \/ (\E s \in Sites : Edit(s)) \/ (\E v \in VarnishHosts : View(v))
             \/ UNCHANGED vars
      PROVE  UNCHANGED <<current, webroot, linked, releases, code, newer, dump>>
  BY <1>4 DEF Start, Refuse, Abort, Push, Edit, View, vars
<1>5. CASE \E o \in Operators : LocalStep(o)
  BY <1>1, <1>5
<1>6. CASE \E o \in Operators : DbStep(o)
  BY <1>2, <1>6
<1>7. CASE \E o \in Operators, h \in Hosts : HostStep(o, h)
  BY <1>3, <1>7
<1> QED
  BY <1>4, <1>5, <1>6, <1>7 DEF Next, Step

LEMMA WhoChangesRest ==
  ASSUME [Next]_vars
  PROVE  /\ \/ db' = db
            \/ \E o \in Operators : DropTables(o) \/ Import(o) \/ \E s \in Sites : UpdateHook(o, s)
            \/ \E s \in Sites : Edit(s)
         /\ \/ pages' = pages
            \/ \E o \in Operators, h \in Hosts : Ban(o, h)
            \/ \E v \in VarnishHosts : View(v)
         /\ staged' = staged \/ \E o \in Operators : Stage(o) \/ Build(o)
         /\ cache' = cache \/ \E o \in Operators, h \in Hosts : Rsync(o, h)
         /\ head' = head \/ Push
         /\ (lastId' = lastId /\ base' = base) \/ \E o \in Operators : NewPath(o)
<1> USE DEF sourceVars, dataVars, nameVars
<1>1. ASSUME NEW o \in Operators, LocalStep(o)
      PROVE  /\ UNCHANGED <<db, pages, cache, head>>
             /\ staged' = staged \/ Stage(o) \/ Build(o)
             /\ (lastId' = lastId /\ base' = base) \/ NewPath(o)
  BY <1>1 DEF LocalStep, NewPath, Stage, Build
<1>2. ASSUME NEW o \in Operators, DbStep(o)
      PROVE  /\ UNCHANGED <<pages, staged, cache, head, lastId, base>>
             /\ db' = db \/ DropTables(o) \/ Import(o) \/ \E s \in Sites : UpdateHook(o, s)
  BY <1>2 DEF DbStep, DumpTaken, DumpSkipped, Gunzip, DropTables, Import, UpdatesDone, UpdateHook
<1>3. ASSUME NEW o \in Operators, NEW h \in Hosts, HostStep(o, h)
      PROVE  /\ UNCHANGED <<db, staged, head, lastId, base>>
             /\ pages' = pages \/ Ban(o, h)
             /\ cache' = cache \/ Rsync(o, h)
  BY <1>3 DEF HostStep, Rsync, Copy, CopyBreaks, Aliases, Link, RemoveWeb, LinkWeb, Settings, Ban,
              Pick, Cleanup, Archive
<1>4. ASSUME \/ \E o \in Operators, c \in Commands : Start(o, c)
             \/ \E o \in Operators : Refuse(o) \/ Abort(o)
             \/ Push \/ (\E s \in Sites : Edit(s)) \/ (\E v \in VarnishHosts : View(v))
             \/ UNCHANGED vars
      PROVE  /\ UNCHANGED <<staged, cache, lastId, base>>
             /\ db' = db \/ \E s \in Sites : Edit(s)
             /\ pages' = pages \/ \E v \in VarnishHosts : View(v)
             /\ head' = head \/ Push
  BY <1>4 DEF Start, Refuse, Abort, Push, Edit, View, vars
<1>5. CASE \E o \in Operators : LocalStep(o)
  BY <1>1, <1>5
<1>6. CASE \E o \in Operators : DbStep(o)
  BY <1>2, <1>6
<1>7. CASE \E o \in Operators, h \in Hosts : HostStep(o, h)
  BY <1>3, <1>7
<1> QED
  BY <1>4, <1>5, <1>6, <1>7 DEF Next, Step


(***************************************************************************)
(* What a run has done, and what it has not done yet.                      *)
(***************************************************************************)
LEMMA DoneBy ==
  ASSUME NEW run, NEW s, NEW g, Did(run, s, g), run.at \in DOMAIN After[run.cmd]
  PROVE  /\ run.at = "newpath" => s = "newpath"
         /\ run.at = "pick" => s = "pick"
         /\ run.at = "stage" => s \in {"newpath", "stage"}
         /\ run.at = "build" => s \in {"newpath", "stage", "build"}
         /\ run.at = "copy" => s \in {"newpath", "stage", "build", "rsync", "copy"}
         /\ run.at \in {"drop", "import"} =>
              run.cmd = "rollback" /\ s \in {"pick", "gunzip", "drop", "import"}
<1>1. CASE run.cmd = "deploy"
  <2>1. /\ s \in DOMAIN After["deploy"] /\ run.at \in DOMAIN After["deploy"]
        /\ Place["deploy"][run.at] > Place["deploy"][s] \/ run.at = s
    BY <1>1 DEF Did
  <2>2. s \in {"newpath", "stage", "build", "rsync", "copy", "dump", "aliases", "link",
               "web", "settings", "updatedb", "ban", "cleanup"}
        /\ run.at \notin {"pick", "drop", "import"}
    BY <2>1 DEF After
  <2> QED
    BY <2>1, <2>2 DEF Place
<1>2. CASE run.cmd = "rollback"
  <2>1. /\ s \in DOMAIN After["rollback"] /\ run.at \in DOMAIN After["rollback"]
        /\ Place["rollback"][run.at] > Place["rollback"][s] \/ run.at = s
    BY <1>2 DEF Did
  <2>2. s \in {"pick", "gunzip", "drop", "import", "dump", "aliases", "link",
               "web", "settings", "updatedb", "archive"}
        /\ run.at \notin {"newpath", "stage", "build", "copy"}
    BY <2>1 DEF After
  <2> QED
    BY <1>2, <2>1, <2>2 DEF Place
<1> QED
  BY <1>1, <1>2 DEF Did

Published == {"web", "settings", "updatedb", "ban", "cleanup", "archive", "end"}

LEMMA DoneAt ==
  ASSUME NEW run, run.status \in {"running", "ok"}, run.cmd \in {"deploy", "rollback"},
         run.at \in DOMAIN Place[run.cmd]
  PROVE  /\ run.at \in Published => \A h \in Hosts : Did(run, "link", h)
         /\ run.at \in Published => Did(run, "dump", DbHost)
         /\ run.at \in {"ban", "cleanup", "archive"} => Did(run, "updatedb", DbHost)
         /\ run.at = "copy" => \A h \in Hosts : Did(run, "rsync", h)
         /\ run.at = "end" => /\ \A h \in AppHosts : Did(run, "web", h) /\ Did(run, "settings", h)
                              /\ Did(run, "updatedb", DbHost)
                              /\ run.cmd = "deploy" =>
                                   /\ \A h \in WebHosts : Did(run, "ban", h)
                                   /\ \A h \in Hosts : Did(run, "cleanup", h) /\ Did(run, "copy", h)
                                   /\ Did(run, "stage", Deployer) /\ Did(run, "build", Deployer)
<1>0. /\ HostsOf("link") = Hosts /\ HostsOf("dump") = {DbHost} /\ HostsOf("web") = AppHosts
      /\ HostsOf("settings") = AppHosts /\ HostsOf("updatedb") = {DbHost}
      /\ HostsOf("ban") = WebHosts /\ HostsOf("cleanup") = Hosts /\ HostsOf("copy") = Hosts
      /\ HostsOf("stage") = {Deployer} /\ HostsOf("build") = {Deployer}
      /\ HostsOf("rsync") = Hosts
  BY DEF HostsOf
<1>1. CASE run.cmd = "deploy"
  BY <1>0, <1>1 DEF Did, Place, After, Published
<1>2. CASE run.cmd = "rollback"
  BY <1>0, <1>2 DEF Did, Place, After, Published
<1> QED
  BY <1>1, <1>2

\* What is done rests on what comes before it in the plan.
LEMMA DoneTogether ==
  ASSUME NEW run, NEW g, run.at \in DOMAIN Place[run.cmd]
  PROVE  /\ Did(run, "ban", g) => \A h \in Hosts : Did(run, "link", h)
         /\ Did(run, "updatedb", g) => Did(run, "dump", DbHost)
<1>0. HostsOf("link") = Hosts /\ HostsOf("dump") = {DbHost}
  BY DEF HostsOf
<1> SUFFICES ASSUME NEW s \in {"ban", "updatedb"}, Did(run, s, g)
             PROVE  /\ \A h \in Hosts : Did(run, "link", h)
                    /\ Did(run, "dump", DbHost)
  OBVIOUS
<1> DEFINE at == Place[run.cmd][run.at]
           p(s_) == Place[run.cmd][s_]
<1>1. /\ run.status \in {"running", "ok"} /\ run.cmd \in {"deploy", "rollback"}
      /\ at > p(s) \/ run.at = s
  BY DEF Did
<1>2. /\ at \in Nat /\ p(s) \in Nat /\ p("link") \in Nat /\ p("dump") \in Nat
      /\ p(s) > p("link") /\ p("link") > p("dump")
      /\ "link" \in DOMAIN After[run.cmd] /\ "dump" \in DOMAIN After[run.cmd]
  <2>1. CASE run.cmd = "deploy"
    BY <2>1 DEF Place, After
  <2>2. CASE run.cmd = "rollback" /\ s # "ban"
    BY <2>2 DEF Place, After
  <2>3. CASE run.cmd = "rollback" /\ s = "ban"
    BY <2>3 DEF Did, After
  <2> QED
    BY <1>1, <2>1, <2>2, <2>3
<1>3. at > p("link") /\ at > p("dump")
  <2>1. CASE run.at = s
    BY <1>2, <2>1
  <2>2. CASE at > p(s)
    BY <1>2, <2>2
  <2> QED
    BY <1>1, <2>1, <2>2
<1> QED
  BY <1>0, <1>1, <1>2, <1>3 DEF Did

(***************************************************************************)
(* Success.                                                                *)
(***************************************************************************)
OkAtEnd == \A o \in Operators : runs[o].status = "ok" =>
             runs[o].at = "end" /\ runs[o].cmd \in {"deploy", "rollback"}
Within(h) == Cardinality(releases[h]) <= KeepReleases
\* Release r of host h is linked to the stage's settings, and ships them.
Configured(h, r) ==
  r \in linked[h] /\ code[h][r].boots /\ code[h][r].src \in StageRevs

LinkDone ==
  \A o \in Operators, h \in Hosts : Did(runs[o], "link", h) => current[h] = runs[o].rel
WebDone == \A o \in Operators, h \in Hosts : Did(runs[o], "web", h) => webroot[h]
SettingsDone ==
  \A o \in Operators, h \in Hosts : Did(runs[o], "settings", h) => Configured(h, runs[o].rel)
UpdateDone == \A o \in Operators : Did(runs[o], "updatedb", DbHost) => db[1].up
OtherSitesUp == \A s \in Sites \ {1} : db[s].up
CleanupDone == \A o \in Operators, h \in Hosts : Did(runs[o], "cleanup", h) => Within(h)

DoneInv == LiveInv /\ OkAtEnd /\ LinkDone /\ CleanupDone
ServedInv == DoneInv /\ WebDone /\ SettingsDone /\ UpdateDone /\ OtherSitesUp

\* One operator's step at a given place of its run.
LEMMA OnePlace ==
  ASSUME OneOperator, NEW o \in Operators, NEW p \in Operators,
         NEW s, NEW t, NEW h, NEW g,
         runs[p].at = t, g \in runs[p].todo, Did(runs[o], s, h)
  PROVE  s = t => h # g
<1> SUFFICES ASSUME s = t PROVE h # g
  OBVIOUS
<1>1. p = o /\ runs[o].cmd \in {"deploy", "rollback"} /\ s \in DOMAIN After[runs[o].cmd]
  BY DEF OneOperator, Did
<1>2. Place[runs[o].cmd][s] \in Nat
  BY <1>1, PlaceNext
<1>3. ~(Place[runs[o].cmd][s] > Place[runs[o].cmd][s])
  BY <1>2
<1> QED
  BY <1>1, <1>3 DEF Did

LEMMA OkAtEndStep ==
  ASSUME LiveInv, OkAtEnd, TakeTurns, OneOperator, [Next]_vars
  PROVE  OkAtEnd'
<1>0. runs \in [Operators -> Run]
  BY DEF LiveInv, TypeInv, TypeOK
<1>1. CASE runs' = runs
  BY <1>1 DEF OkAtEnd
<1>2. ASSUME NEW o \in Operators, Fresh(o) PROVE OkAtEnd'
  <2>1. runs'[o].status # "ok"
    BY <1>0, <1>2 DEF Fresh
  <2> QED
    BY <2>1 DEF OkAtEnd, OneOperator
<1>3. ASSUME NEW o \in Operators, NEW s, NEW h, Acts(o, s, h) PROVE OkAtEnd'
  <2>1. Moved(o, h)
    BY <1>3, ActsMove
  <2> QED
    BY <1>0, <2>1 DEF Moved, OkAtEnd, OneOperator, Running
<1> QED
  BY <1>1, <1>2, <1>3, RunSteps


\* A set of names that is not empty has an oldest.
LEMMA Oldest ==
  ASSUME NEW S \in SUBSET Nat, S # {}
  PROVE  \E m \in S : \A r \in S : m <= r
<1> DEFINE R == OpToRel(<, Nat)
<1>1. IsWellFoundedOn(R, Nat)
  BY NatLessThanWellFounded
<1>2. \A x, y \in Nat : x < y => <<x, y>> \in R
  BY DEF OpToRel
<1> HIDE DEF R
<1>3. PICK m \in S : \A r \in S : ~(<<r, m>> \in R)
  BY <1>1, WFMin
<1>4. \A r \in S : ~(r < m)
  BY <1>2, <1>3
<1>5. \A r \in S : m <= r
  BY <1>4
<1> QED
  BY <1>5

\* deploy:cleanup keeps as many releases as it is told, or fewer.
LEMMA KeptIsBounded ==
  ASSUME NEW S \in SUBSET Ids
  PROVE  Cardinality(Kept(S)) <= KeepReleases
<1>1. IsFiniteSet(S) /\ S \in SUBSET Nat
  <2>1. IsFiniteSet(Ids)
    BY BoundAssumption, FS_Interval DEF Ids
  <2>2. IsFiniteSet(S)
    BY <2>1, FS_Subset
  <2> QED
    BY <2>2, BoundAssumption DEF Ids
<1>2. CASE Kept(S) = {}
  BY <1>2, FS_EmptySet, KeepAssumption
<1>3. CASE Kept(S) # {}
  <2>1. Kept(S) \in SUBSET Nat
    BY <1>1 DEF Kept
  <2>2. PICK m \in Kept(S) : \A r \in Kept(S) : m <= r
    BY <1>3, <2>1, Oldest
  <2> DEFINE above == {s \in S : s > m}
  <2>3. Cardinality(above) < KeepReleases
    BY <2>2 DEF Kept
  <2>4. IsFiniteSet(above) /\ above \in SUBSET S
    BY <1>1, FS_Subset
  <2>5. Kept(S) \subseteq above \cup {m}
    BY <1>1, <2>1, <2>2 DEF Kept
  <2> HIDE DEF above
  <2>6. /\ IsFiniteSet(above \cup {m})
        /\ Cardinality(above \cup {m}) <= KeepReleases
    <3>1. Cardinality(above) \in Nat
      BY <2>4, FS_CardinalityType
    <3>2. m \notin above => Cardinality(above \cup {m}) = Cardinality(above) + 1
      BY <2>4, FS_AddElement
    <3>3. m \in above => Cardinality(above \cup {m}) = Cardinality(above)
      BY <2>4, FS_AddElement
    <3>4. IsFiniteSet(above \cup {m})
      BY <2>4, FS_AddElement
    <3> QED
      BY <2>3, <3>1, <3>2, <3>3, <3>4, KeepAssumption
  <2>7. Cardinality(Kept(S)) <= Cardinality(above \cup {m}) /\ IsFiniteSet(Kept(S))
    BY <2>5, <2>6, FS_Subset
  <2> QED
    BY <2>6, <2>7, FS_CardinalityType, KeepAssumption
<1> QED
  BY <1>2, <1>3


LEMMA DidPlace ==
  ASSUME LiveInv, OkAtEnd, NEW o \in Operators, runs[o].status \in {"running", "ok"}
  PROVE  /\ runs[o].cmd \in {"deploy", "rollback"}
         /\ Running(o) => runs[o].at \in DOMAIN After[runs[o].cmd]
         /\ runs[o].at \in DOMAIN Place[runs[o].cmd]
<1>1. Running(o) => runs[o].cmd \in {"deploy", "rollback"} /\ runs[o].at \in DOMAIN After[runs[o].cmd]
  BY DEF LiveInv, TypeInv, RunsOk, RunOk, RunsLive, RunLive, Running
<1>2. \A c \in {"deploy", "rollback"} :
        "end" \in DOMAIN Place[c] /\ \A s \in DOMAIN After[c] : s \in DOMAIN Place[c]
  BY DEF Place, After
<1>3. ~Running(o) => runs[o].at = "end" /\ runs[o].cmd \in {"deploy", "rollback"}
  BY DEF OkAtEnd, Running
<1> QED
  BY <1>1, <1>2, <1>3

LEMMA LinkDoneStep ==
  ASSUME DoneInv, TakeTurns, OneOperator, [Next]_vars
  PROVE  LinkDone'
<1> SUFFICES ASSUME NEW o \in Operators, NEW h \in Hosts, Did(runs'[o], "link", h)
             PROVE  current'[h] = runs'[o].rel
  BY DEF LinkDone
<1>0. current \in [Hosts -> Ids]
  BY DEF DoneInv, LiveInv, TypeInv, TypeOK
<1>1. runs'[o].rel = runs[o].rel /\ (Did(runs[o], "link", h) \/ Acts(o, "link", h))
  BY DidBefore DEF DoneInv
<1>2. CASE Acts(o, "link", h)
  BY <1>0, <1>1, <1>2 DEF Acts, Link
<1>3. CASE Did(runs[o], "link", h)
  <2>1. current[h] = runs[o].rel
    BY <1>3 DEF DoneInv, LinkDone
  <2>2. ASSUME NEW p \in Operators, NEW g \in Hosts, Link(p, g) PROVE current'[h] = current[h]
    <3>1. h # g
      BY <1>3, <2>2, OnePlace DEF Link, At
    <3> QED
      BY <1>0, <2>2, <3>1 DEF Link
  <2> QED
    BY <1>1, <2>1, <2>2, WhoChangesDisk
<1> QED
  BY <1>1, <1>2, <1>3

\* A run that has done more than to choose its release knows it.
LEMMA RelKnown ==
  ASSUME DoneInv, NEW o \in Operators, NEW s, NEW h, Did(runs[o], s, h),
         s \notin {"newpath", "pick"}
  PROVE  runs[o].rel \in Ids
<1>1. /\ runs[o].status \in {"running", "ok"} /\ runs[o].cmd \in {"deploy", "rollback"}
      /\ Running(o) => runs[o].at \in DOMAIN After[runs[o].cmd]
      /\ runs[o].at \in DOMAIN Place[runs[o].cmd]
      /\ current \in [Hosts -> Ids]
  BY DidPlace DEF DoneInv, Did, LiveInv, TypeInv, TypeOK
<1>2. CASE runs[o].at \in Published
  BY <1>1, <1>2, DoneAt, HostAssumption DEF DoneInv, LinkDone
<1>3. CASE runs[o].at \notin Published
  <2>1. Running(o)
    BY <1>1, <1>3 DEF DoneInv, OkAtEnd, Published, Running
  <2>2. runs[o].at \notin {"newpath", "pick", "cleanup"}
    BY <1>1, <1>3, <2>1, DoneBy DEF Published
  <2> QED
    BY <2>1, <2>2 DEF DoneInv, LiveInv, TypeInv, RunsOk, RunOk, Running
<1> QED
  BY <1>2, <1>3

LEMMA WebDoneStep ==
  ASSUME DoneInv, WebDone, TakeTurns, OneOperator, [Next]_vars
  PROVE  WebDone'
<1> SUFFICES ASSUME NEW o \in Operators, NEW h \in Hosts, Did(runs'[o], "web", h)
             PROVE  webroot'[h]
  BY DEF WebDone
<1>0. webroot \in [Hosts -> BOOLEAN]
  BY DEF DoneInv, LiveInv, TypeInv, TypeOK
<1>1. Did(runs[o], "web", h) \/ Acts(o, "web", h)
  BY DidBefore DEF DoneInv
<1>2. CASE Acts(o, "web", h)
  BY <1>0, <1>2 DEF Acts, LinkWeb
<1>3. CASE Did(runs[o], "web", h)
  <2>1. webroot[h]
    BY <1>3 DEF WebDone
  <2>2. ASSUME NEW p \in Operators, NEW g \in Hosts, RemoveWeb(p, g) \/ LinkWeb(p, g)
        PROVE  webroot'[h] = webroot[h]
    <3>1. h # g
      BY <1>3, <2>2, OnePlace DEF RemoveWeb, LinkWeb, At
    <3> QED
      BY <1>0, <2>2, <3>1 DEF RemoveWeb, LinkWeb
  <2> QED
    BY <2>1, <2>2, WhoChangesDisk
<1> QED
  BY <1>1, <1>2, <1>3

\* deploy:cleanup and deploy:cleanup_rollback spare the release that was deployed or
\* rolled back to.
LEMMA DeletesKeep ==
  ASSUME DoneInv, NEW o \in Operators, NEW h \in Hosts, Deletes(o, h)
  PROVE  \E gone : Remove(h, gone) /\ current[h] \notin gone /\ runs[o].rel \notin gone
<1>1. Running(o) /\ runs[o].at \in {"cleanup", "archive"}
  BY DEF Deletes, Cleanup, Archive, At
<1>2. current[h] = runs[o].rel
  <2>1. runs[o].status \in {"running", "ok"}
    BY <1>1 DEF Running
  <2>2. Did(runs[o], "link", h)
    BY <1>1, <2>1, DidPlace, DoneAt DEF DoneInv, Published
  <2> QED
    BY <2>2 DEF DoneInv, LinkDone
<1>3. CASE Cleanup(o, h)
  <2>1. RunOk(runs[o]) /\ RunLive(runs[o]) /\ runs[o].status = "running" /\ runs[o].at = "cleanup"
    BY <1>1, <1>3 DEF Running, DoneInv, LiveInv, TypeInv, RunsOk, RunsLive, Cleanup, At
  <2>2. current[h] = lastId
    BY <1>2, <2>1, DeployOnly DEF RunOk, RunLive
  <2>3. releases[h] \in SUBSET Ids /\ current[h] \in releases[h]
    BY DEF DoneInv, LiveInv, TypeInv, TypeOK, LiveReleaseExists
  <2>4. \A s \in releases[h] : s <= current[h]
    BY <2>2 DEF DoneInv, LiveInv, NamesGiven
  <2>5. current[h] \in Kept(releases[h])
    BY <2>3, <2>4, NewestKept
  <2> QED
    BY <1>2, <1>3, <2>5 DEF Cleanup
<1>4. CASE Archive(o, h)
  BY <1>2, <1>4 DEF Archive
<1> QED
  BY <1>3, <1>4 DEF Deletes

\* A release that is not deleted keeps what is said of it.
LEMMA RemoveKeeps ==
  ASSUME DoneInv, NEW g \in Hosts, NEW gone, Remove(g, gone), NEW r \in Ids, r \notin gone,
         NEW h \in Hosts
  PROVE  /\ code'[h][r] = code[h][r]
         /\ (r \in releases[h]) <=> (r \in releases'[h])
         /\ (r \in linked[h]) <=> (r \in linked'[h])
         /\ dump'[r] = dump[r]
<1>1. /\ code \in [Hosts -> [Ids -> Tree]] /\ releases \in [Hosts -> SUBSET Ids]
      /\ linked \in [Hosts -> SUBSET Ids] /\ dump \in [Ids -> Dump]
  BY DEF DoneInv, LiveInv, TypeInv, TypeOK
<1> QED
  BY <1>1 DEF Remove

LEMMA SettingsDoneStep ==
  ASSUME DoneInv, SettingsDone, TakeTurns, OneOperator, [Next]_vars
  PROVE  SettingsDone'
<1> SUFFICES ASSUME NEW o \in Operators, NEW h \in Hosts, Did(runs'[o], "settings", h)
             PROVE  Configured(h, runs[o].rel)' /\ runs'[o].rel = runs[o].rel
  BY DEF SettingsDone, Configured
<1>0. /\ linked \in [Hosts -> SUBSET Ids] /\ code \in [Hosts -> [Ids -> Tree]]
      /\ runs \in [Operators -> Run]
  BY DEF DoneInv, LiveInv, TypeInv, TypeOK
<1>1. runs'[o].rel = runs[o].rel /\ (Did(runs[o], "settings", h) \/ Acts(o, "settings", h))
  BY DidBefore DEF DoneInv
<1> DEFINE r == runs[o].rel
<1>2. CASE Acts(o, "settings", h)
  <2>1. Settings(o, h) /\ HasStageFile(h)
    BY <1>2 DEF Acts
  <2>2. current[h] = r
    <3>1. runs[o].status \in {"running", "ok"} /\ runs[o].at = "settings"
      BY <2>1 DEF Settings, At, Running
    <3>2. Did(runs[o], "link", h)
      BY <3>1, DidPlace, DoneAt DEF DoneInv, Published
    <3> QED
      BY <3>2 DEF DoneInv, LinkDone
  <2>3. code' = code /\ linked'[h] = linked[h] \cup {r}
    BY <1>0, <2>1, <2>2 DEF Settings
  <2> QED
    BY <1>1, <2>1, <2>2, <2>3 DEF Configured, HasStageFile
<1>3. CASE Did(runs[o], "settings", h)
  <2>1. Configured(h, r)
    BY <1>3 DEF SettingsDone
  <2>2. r \in Ids
    BY <1>0, <2>1 DEF Configured
  <2>3. ASSUME NEW p \in Operators, NEW g \in Hosts, Puts(p, g) PROVE FALSE
    <3>1. runs[o].at = "copy" /\ Running(o)
      BY <2>3 DEF Puts, Copy, CopyBreaks, At, OneOperator
    <3> QED
      BY <1>3, <3>1, DoneBy, DidPlace DEF DoneInv, Running
  <2>4. ASSUME NEW p \in Operators, NEW g \in Hosts, Deletes(p, g) PROVE Configured(h, r)'
    <3>1. p = o
      BY DEF OneOperator
    <3>2. PICK gone : Remove(g, gone) /\ r \notin gone
      BY <2>4, <3>1, DeletesKeep
    <3>3. code'[h][r] = code[h][r] /\ r \in linked'[h]
      BY <2>1, <2>2, <3>2, RemoveKeeps DEF Configured
    <3> QED
      BY <1>1, <2>1, <3>3 DEF Configured
  <2>5. ASSUME NEW p \in Operators, NEW g \in Hosts, Settings(p, g)
        PROVE  r \in linked'[h] /\ code' = code
    BY <1>0, <2>1, <2>5 DEF Settings, Configured
  <2> QED
    BY <1>1, <2>1, <2>3, <2>4, <2>5, WhoChangesDisk DEF Configured
<1> QED
  BY <1>1, <1>2, <1>3


LEMMA UpdateDoneStep ==
  ASSUME DoneInv, UpdateDone, TakeTurns, OneOperator, [Next]_vars
  PROVE  UpdateDone'
<1> SUFFICES ASSUME NEW o \in Operators, Did(runs'[o], "updatedb", DbHost)
             PROVE  db'[1].up
  BY DEF UpdateDone
<1>0. db \in [Sites -> Database] /\ 1 \in Sites
  BY HostAssumption DEF DoneInv, LiveInv, TypeInv, TypeOK, Sites
<1>1. Did(runs[o], "updatedb", DbHost) \/ Acts(o, "updatedb", DbHost)
  BY DidBefore DEF DoneInv
<1>2. CASE Acts(o, "updatedb", DbHost)
  BY <1>2 DEF Acts, UpdatesDone, CanUpdate, Bootstraps, dataVars
<1>3. CASE Did(runs[o], "updatedb", DbHost)
  <2>1. db[1].up
    BY <1>3 DEF UpdateDone
  <2>2. ASSUME NEW p \in Operators, DropTables(p) \/ Import(p) PROVE FALSE
    <3>1. runs[o].at \in {"drop", "import"} /\ Running(o)
      BY <2>2 DEF DropTables, Import, At, OneOperator
    <3> QED
      BY <1>3, <3>1, DoneBy, DidPlace DEF DoneInv, Running
  <2>3. ASSUME NEW p \in Operators, NEW s \in Sites, UpdateHook(p, s) PROVE db'[1].up
    BY <1>0, <2>1, <2>3 DEF UpdateHook, Database
  <2>4. ASSUME NEW s \in Sites, Edit(s) PROVE db'[1].up
    BY <1>0, <2>1, <2>4 DEF Edit, Database
  <2> QED
    BY <2>1, <2>2, <2>3, <2>4, WhoChangesRest
<1> QED
  BY <1>1, <1>2, <1>3

\* Only the first site's tables are ever dropped.
LEMMA OtherSitesUpStep ==
  ASSUME DoneInv, OtherSitesUp, [Next]_vars
  PROVE  OtherSitesUp'
<1> SUFFICES ASSUME NEW s \in Sites \ {1} PROVE db'[s].up
  BY DEF OtherSitesUp
<1>0. db \in [Sites -> Database] /\ db[s].up
  BY DEF DoneInv, LiveInv, TypeInv, TypeOK, OtherSitesUp
<1>1. ASSUME NEW p \in Operators, DropTables(p) \/ Import(p) PROVE db'[s].up
  BY <1>0, <1>1 DEF DropTables, Import
<1>2. ASSUME NEW p \in Operators, NEW t \in Sites, UpdateHook(p, t) PROVE db'[s].up
  BY <1>0, <1>2 DEF UpdateHook, Database
<1>3. ASSUME NEW t \in Sites, Edit(t) PROVE db'[s].up
  BY <1>0, <1>3 DEF Edit, Database
<1> QED
  BY <1>0, <1>1, <1>2, <1>3, WhoChangesRest

LEMMA CleanupDoneStep ==
  ASSUME DoneInv, TakeTurns, OneOperator, [Next]_vars
  PROVE  CleanupDone'
<1> SUFFICES ASSUME NEW o \in Operators, NEW h \in Hosts, Did(runs'[o], "cleanup", h)
             PROVE  Within(h)'
  BY DEF CleanupDone, Within
<1>0. releases \in [Hosts -> SUBSET Ids]
  BY DEF DoneInv, LiveInv, TypeInv, TypeOK
<1>1. Did(runs[o], "cleanup", h) \/ Acts(o, "cleanup", h)
  BY DidBefore DEF DoneInv
<1>2. ASSUME NEW p \in Operators, Cleanup(p, h) PROVE Within(h)'
  <2>1. releases' = [releases EXCEPT ![h] = @ \ (releases[h] \ Kept(releases[h]))]
    BY <1>2 DEF Cleanup, Remove
  <2>2. releases'[h] = Kept(releases[h])
    BY <1>0, <2>1 DEF Kept
  <2> QED
    BY <1>0, <2>2, KeptIsBounded DEF Within
<1>3. CASE Did(runs[o], "cleanup", h)
  <2>1. Within(h) /\ runs[o].cmd = "deploy"
    BY <1>3 DEF DoneInv, CleanupDone, Did, After
  <2>2. ASSUME NEW p \in Operators, NEW g \in Hosts, Puts(p, g) PROVE FALSE
    <3>1. runs[o].at = "copy" /\ Running(o)
      BY <2>2 DEF Puts, Copy, CopyBreaks, At, OneOperator
    <3> QED
      BY <1>3, <3>1, DoneBy, DidPlace DEF DoneInv, Running
  <2>3. ASSUME NEW p \in Operators, NEW g \in Hosts, Archive(p, g) PROVE FALSE
    <3>1. runs[o].at = "archive" /\ Running(o)
      BY <2>3 DEF Archive, At, OneOperator
    <3>2. runs[o].at \in DOMAIN After["deploy"]
      BY <2>1, <3>1, DidPlace DEF DoneInv, Running
    <3> QED
      BY <3>1, <3>2 DEF After
  <2>4. ASSUME NEW p \in Operators, NEW g \in Hosts, Cleanup(p, g)
        PROVE  g # h => releases'[h] = releases[h]
    BY <1>0, <2>4 DEF Cleanup, Remove
  <2> QED
    BY <1>2, <2>1, <2>2, <2>3, <2>4, WhoChangesDisk DEF Within, Deletes
<1> QED
  BY <1>1, <1>2, <1>3 DEF Acts

LEMMA DoneInit == Init => ServedInv
<1> SUFFICES ASSUME Init PROVE ServedInv
  OBVIOUS
<1>1. \A o \in Operators : runs[o].status = "idle"
  BY DEF Init, IdleRun
<1>2. OtherSitesUp
  BY DEF Init, OtherSitesUp
<1> QED
  BY <1>1, <1>2, InitLive
  DEF ServedInv, DoneInv, OkAtEnd, LinkDone, WebDone, SettingsDone, UpdateDone, CleanupDone, Did

LEMMA DoneStep == DoneInv /\ TakeTurns /\ OneOperator /\ [Next]_vars => DoneInv'
BY LiveStep, OkAtEndStep, LinkDoneStep, CleanupDoneStep DEF DoneInv

LEMMA ServedStep == ServedInv /\ TakeTurns /\ OneOperator /\ [Next]_vars => ServedInv'
BY DoneStep, WebDoneStep, SettingsDoneStep, UpdateDoneStep, OtherSitesUpStep DEF ServedInv

\* Where a run that ended well has been.
LEMMA SuccessDid ==
  ASSUME DoneInv, NEW o \in Operators, runs[o].status = "ok"
  PROVE  /\ runs[o].at = "end" /\ runs[o].cmd \in {"deploy", "rollback"}
         /\ runs[o].at \in DOMAIN Place[runs[o].cmd]
BY DidPlace DEF DoneInv, OkAtEnd

LEMMA ServedIsLive == ServedInv => SuccessIsLive
<1> SUFFICES ASSUME ServedInv, NEW o \in Operators, Succeeded(o, {"deploy", "rollback"})
             PROVE  /\ \A h \in Hosts : current[h] = runs[o].rel
                    /\ \A h \in AppHosts, s \in Sites : Serves(h, s)
  BY DEF SuccessIsLive
<1>1. /\ runs[o].status = "ok" /\ runs[o].at = "end" /\ runs[o].at \in Published
      /\ runs[o].cmd \in {"deploy", "rollback"} /\ runs[o].at \in DOMAIN Place[runs[o].cmd]
  BY SuccessDid DEF Succeeded, ServedInv, Published
<1>2. \A h \in Hosts : current[h] = runs[o].rel
  BY <1>1, DoneAt DEF ServedInv, DoneInv, LinkDone
<1>3. ASSUME NEW h \in AppHosts, NEW s \in Sites PROVE Serves(h, s)
  <2>1. h \in Hosts /\ current[h] \in releases[h]
    BY HostAssumption DEF ServedInv, DoneInv, LiveInv, LiveReleaseExists
  <2>2. webroot[h] /\ Configured(h, runs[o].rel)
    BY <1>1, <2>1, DoneAt DEF ServedInv, WebDone, SettingsDone
  <2>3. db[s].up
    BY <1>1, DoneAt DEF ServedInv, UpdateDone, OtherSitesUp
  <2>4. SettingsWork(h, current[h])
    BY <1>2, <2>1, <2>2 DEF SettingsWork, Configured, HasStageFile
  <2> QED
    BY <2>2, <2>3, <2>4 DEF Serves
<1> QED
  BY <1>2, <1>3

\* For any hosts, sites, faults and bounds, when one operator runs cap: a deploy or a
\* rollback that reports success (after deploy:symlink:release, deploy:symlink:web,
\* drupal:settings and drush:updatedb) has every host on its release and every app
\* host serving every site.
THEOREM SuccessIsLiveSafe ==
  ASSUME TakeTurns, OneOperator
  PROVE  Spec => []SuccessIsLive
<1>1. ServedInv /\ [Next]_vars => ServedInv'
  BY ServedStep
<1> QED
  BY <1>1, DoneInit, ServedIsLive, PTL DEF Spec

\* For any hosts, faults and bounds, when one operator runs cap, a deploy that ends
\* well leaves at most KeepReleases releases on every host (deploy:cleanup), whatever
\* failed deploys left behind before it.
THEOREM KeptAtMostSafe ==
  ASSUME TakeTurns, OneOperator
  PROVE  Spec => []KeptAtMost
<1>1. DoneInv /\ [Next]_vars => DoneInv'
  BY DoneStep
<1>2. Init => DoneInv
  BY DoneInit DEF ServedInv
<1>3. DoneInv => KeptAtMost
  BY SuccessDid, DoneAt DEF DoneInv, CleanupDone, KeptAtMost, Succeeded, Within
<1> QED
  BY <1>1, <1>2, <1>3, PTL DEF Spec


(***************************************************************************)
(* Varnish.  A web host that has been told to drop its pages fetches new   *)
(* ones from app hosts that all run the release, if it may read the secret *)
(* it has to show: web:varnish:ban drops nothing without it.               *)
(***************************************************************************)
BanWorks == VarnishHosts \cap WebHosts \subseteq SecretHosts

BanDone ==
  \A o \in Operators, v \in VarnishHosts \cap WebHosts :
    Did(runs[o], "ban", v) => pages[v] \subseteq {runs[o].rel}
PagesInv == DoneInv /\ BanDone

LEMMA BanDoneStep ==
  ASSUME PagesInv, BanWorks, TakeTurns, OneOperator, [Next]_vars
  PROVE  BanDone'
<1> SUFFICES ASSUME NEW o \in Operators, NEW v \in VarnishHosts \cap WebHosts,
                    Did(runs'[o], "ban", v)
             PROVE  pages'[v] \subseteq {runs'[o].rel}
  BY DEF BanDone
<1>0. pages \in [Hosts -> SUBSET Ids] /\ v \in Hosts
  BY HostAssumption DEF PagesInv, DoneInv, LiveInv, TypeInv, TypeOK
<1>1. runs'[o].rel = runs[o].rel /\ (Did(runs[o], "ban", v) \/ Acts(o, "ban", v))
  BY DidBefore DEF PagesInv, DoneInv
<1>2. CASE Acts(o, "ban", v)
  BY <1>0, <1>2 DEF Acts, Ban, BanWorks
<1>3. CASE Did(runs[o], "ban", v)
  <2>1. pages[v] \subseteq {runs[o].rel}
    BY <1>3 DEF PagesInv, BanDone
  <2>2. \A h \in Hosts : current[h] = runs[o].rel
    <3>1. runs[o].at \in DOMAIN Place[runs[o].cmd]
      BY <1>3, DidPlace DEF PagesInv, DoneInv, Did
    <3>2. \A h \in Hosts : Did(runs[o], "link", h)
      BY <1>3, <3>1, DoneTogether
    <3> QED
      BY <3>2 DEF PagesInv, DoneInv, LinkDone
  <2>3. ASSUME NEW p \in Operators, NEW g \in Hosts, Ban(p, g)
        PROVE  pages'[v] \subseteq {runs[o].rel}
    BY <1>0, <2>1, <2>3 DEF Ban
  <2>4. ASSUME NEW w \in VarnishHosts, View(w) PROVE pages'[v] \subseteq {runs[o].rel}
    <3>1. PICK h \in Hosts : pages' = [pages EXCEPT ![w] = @ \cup {current[h]}]
      BY <2>4 DEF View
    <3> QED
      BY <1>0, <2>1, <2>2, <3>1
  <2> QED
    BY <1>1, <2>1, <2>3, <2>4, WhoChangesRest
<1> QED
  BY <1>1, <1>2, <1>3

\* For any hosts, faults and bounds, when one operator runs cap and every web host
\* that runs Varnish can read the secret: after a deploy that ends well no Varnish
\* holds a page of an earlier release, though visitors fetch pages while it runs.
THEOREM NoStalePagesSafe ==
  ASSUME TakeTurns, OneOperator, BanWorks
  PROVE  Spec => []NoStalePages
<1>1. Init => PagesInv
  <2>1. Init => BanDone
    BY DEF Init, BanDone, Did, IdleRun
  <2> QED
    BY <2>1, DoneInit DEF ServedInv, PagesInv
<1>2. PagesInv /\ [Next]_vars => PagesInv'
  BY DoneStep, BanDoneStep DEF PagesInv
<1>3. PagesInv => NoStalePages
  BY SuccessDid, DoneAt DEF PagesInv, BanDone, NoStalePages, Succeeded
<1> QED
  BY <1>1, <1>2, <1>3, PTL DEF Spec

(***************************************************************************)
(* What makes a deployment safe to undo: a successful deploy is backed up  *)
(* and put the same complete tree on every host, leaves a release to roll  *)
(* back to, and the updates of a database begin only when they can be      *)
(* undone.                                                                 *)
(***************************************************************************)


(***************************************************************************)
(* The backup.  drush:sqldump skips a site that Drush does not reach, and  *)
(* reports no error; what makes a successful deploy a backed-up one is     *)
(* that the updates, later in the plan, need to reach the same database    *)
(* from the same release.                                                  *)
(***************************************************************************)
OwnSettings == Revs \subseteq OwnRevs

LinkedExist == \A h \in Hosts : linked[h] \subseteq releases[h]
BeforeLink == {"stage", "build", "rsync", "copy", "dump"}
NotYetLinked ==
  \A o \in Operators, h \in Hosts :
    Running(o) /\ runs[o].at \in BeforeLink /\ runs[o].cmd = "deploy" =>
      runs[o].rel \notin linked[h]
DumpDone ==
  \A o \in Operators :
    Did(runs[o], "dump", DbHost) /\ runs[o].cmd = "deploy" =>
      \/ dump[runs[o].rel].form = "gz"
      \/ /\ ~Did(runs[o], "updatedb", DbHost)
         /\ ~(db[1].up /\ code[DbHost][runs[o].rel].boots)
BackupInv == DoneInv /\ LinkedExist /\ NotYetLinked /\ DumpDone

LEMMA LinkedExistStep ==
  ASSUME DoneInv, LinkedExist, [Next]_vars
  PROVE  LinkedExist'
<1> SUFFICES ASSUME NEW h \in Hosts PROVE linked'[h] \subseteq releases'[h]
  BY DEF LinkedExist
<1>0. /\ linked \in [Hosts -> SUBSET Ids] /\ releases \in [Hosts -> SUBSET Ids]
      /\ linked[h] \subseteq releases[h] /\ current[h] \in releases[h]
  BY DEF DoneInv, LiveInv, TypeInv, TypeOK, LinkedExist, LiveReleaseExists
<1>1. ASSUME NEW p \in Operators, NEW g \in Hosts, Settings(p, g)
      PROVE  linked'[h] \subseteq releases'[h]
  BY <1>0, <1>1 DEF Settings
<1>2. ASSUME NEW p \in Operators, NEW g \in Hosts, Puts(p, g)
      PROVE  linked'[h] \subseteq releases'[h]
  BY <1>0, <1>2 DEF Puts, Copy, CopyBreaks, PutRelease
<1>3. ASSUME NEW p \in Operators, NEW g \in Hosts, Deletes(p, g)
      PROVE  linked'[h] \subseteq releases'[h]
  BY <1>0, <1>3 DEF Deletes, Cleanup, Archive, Remove
<1> QED
  BY <1>0, <1>1, <1>2, <1>3, WhoChangesDisk

LEMMA PathToDump ==
  ASSUME NEW s \in DOMAIN After["deploy"], After["deploy"][s] \in BeforeLink
  PROVE  s \in {"newpath"} \cup BeforeLink
BY DEF After, BeforeLink

\* A run that has not linked its release yet has just named it, or has not moved far.
LEMMA BeforeLinkBefore ==
  ASSUME LiveInv, TakeTurns, OneOperator, [Next]_vars, NEW o \in Operators, Running(o)',
         runs'[o].cmd = "deploy", runs'[o].at \in BeforeLink, ~NewPath(o)
  PROVE  /\ Running(o) /\ runs[o].at \in BeforeLink /\ runs[o].cmd = "deploy"
         /\ runs'[o].rel = runs[o].rel
<1>0. runs \in [Operators -> Run]
  BY DEF LiveInv, TypeInv, TypeOK
<1>1. CASE runs' = runs
  BY <1>1 DEF Running
<1>2. ASSUME NEW p \in Operators, Fresh(p) PROVE FALSE
  BY <1>0, <1>2 DEF Fresh, OneOperator, BeforeLink, Running
<1>3. ASSUME NEW p \in Operators, NEW t, NEW g, Acts(p, t, g)
      PROVE  /\ Running(o) /\ runs[o].at \in BeforeLink /\ runs[o].cmd = "deploy"
             /\ runs'[o].rel = runs[o].rel
  <2>1. p = o /\ t = runs[o].at /\ Moved(o, g)
    BY <1>3, ActsMove DEF OneOperator
  <2>2. t # "newpath"
    BY <1>3, <2>1 DEF Acts
  <2>3. /\ runs[o].cmd = "deploy" /\ runs[o].at \in DOMAIN After["deploy"] /\ Running(o)
        /\ runs'[o].at = runs[o].at \/ runs'[o].at = After["deploy"][runs[o].at]
        /\ runs[o].at # "pick" => runs'[o].rel = runs[o].rel
    BY <1>0, <2>1, <2>2 DEF Moved
  <2>4. runs[o].at \in BeforeLink
    BY <2>1, <2>2, <2>3, PathToDump
  <2> QED
    BY <2>3, <2>4 DEF BeforeLink
<1> QED
  BY <1>1, <1>2, <1>3, RunSteps

LEMMA NamedHighest ==
  ASSUME LiveInv, NEW o \in Operators, NewPath(o)
  PROVE  runs'[o].rel = lastId + 1 /\ \A h \in Hosts : lastId + 1 \notin releases[h]
<1>1. runs \in [Operators -> Run] /\ lastId \in Nat
  BY BoundAssumption DEF LiveInv, TypeInv, TypeOK, Ids
<1>2. Done(runs[o], Deployer) \in Run
  BY <1>1, DoneType DEF NewPath, At, Running, LiveInv, TypeInv, RunsOk
<1>3. runs'[o].rel = lastId + 1
  BY <1>1, <1>2 DEF NewPath, AdvanceTo, Run
<1> QED
  BY <1>1, <1>3 DEF LiveInv, NamesGiven

\* A new name is linked nowhere, and the settings step comes late.
LEMMA NotYetLinkedStep ==
  ASSUME BackupInv, TakeTurns, OneOperator, [Next]_vars
  PROVE  NotYetLinked'
<1> SUFFICES ASSUME NEW o \in Operators, NEW h \in Hosts, Running(o)', runs'[o].cmd = "deploy",
                    runs'[o].at \in BeforeLink
             PROVE  runs'[o].rel \notin linked'[h]
  BY DEF NotYetLinked
<1>0. LiveInv
  BY DEF BackupInv, DoneInv
<1>1. CASE NewPath(o)
  BY <1>0, <1>1, NamedHighest DEF NewPath, diskVars, BackupInv, LinkedExist
<1>2. CASE ~NewPath(o)
  <2>1. /\ Running(o) /\ runs[o].at \in BeforeLink /\ runs[o].cmd = "deploy"
        /\ runs'[o].rel = runs[o].rel
    BY <1>0, <1>2, BeforeLinkBefore
  <2>2. runs[o].rel \notin linked[h]
    BY <2>1 DEF BackupInv, NotYetLinked
  <2>3. ASSUME NEW p \in Operators, NEW g \in Hosts, Settings(p, g) \/ Deletes(p, g)
        PROVE  linked'[h] \subseteq linked[h]
    <3>1. runs[o].at \notin {"settings", "cleanup", "archive"}
      BY <2>1 DEF BeforeLink
    <3> QED
      BY <2>3, <3>1 DEF Settings, Deletes, Cleanup, Archive, At, OneOperator
  <2> QED
    BY <2>1, <2>2, <2>3, WhoChangesDisk
<1> QED
  BY <1>1, <1>2


\* A dump that is not taken, for the database is down or the code does not boot.
LEMMA DumpSkipReason ==
  ASSUME BackupInv, OwnSettings, NEW o \in Operators, DumpSkipped(o), runs[o].cmd = "deploy"
  PROVE  \/ dump[runs[o].rel].form = "gz"
         \/ ~(db[1].up /\ code[DbHost][runs[o].rel].boots)
<1> SUFFICES ASSUME runs[o].rel \in releases[DbHost], ~Bootstraps(runs[o].rel),
                    db[1].up, code[DbHost][runs[o].rel].boots
             PROVE  FALSE
  BY DEF DumpSkipped
<1>1. runs[o].rel \notin linked[DbHost]
  BY HostAssumption DEF BackupInv, NotYetLinked, DumpSkipped, At, BeforeLink
<1>2. code[DbHost][runs[o].rel].src \in Revs
  <2>1. runs[o].rel \in Ids
    BY HostAssumption DEF BackupInv, DoneInv, LiveInv, TypeInv, TypeOK
  <2> QED
    BY <2>1, HostAssumption DEF BackupInv, DoneInv, LiveInv, TypeInv, TypeOK, Tree
<1> QED
  BY <1>1, <1>2 DEF Bootstraps, SettingsWork, OwnSettings

LEMMA DumpDoneStep ==
  ASSUME BackupInv, OwnSettings, TakeTurns, OneOperator, [Next]_vars
  PROVE  DumpDone'
<1> SUFFICES ASSUME NEW o \in Operators, Did(runs'[o], "dump", DbHost), runs'[o].cmd = "deploy"
             PROVE  \/ dump'[runs'[o].rel].form = "gz"
                    \/ /\ ~Did(runs'[o], "updatedb", DbHost)
                       /\ ~(db'[1].up /\ code'[DbHost][runs'[o].rel].boots)
  BY DEF DumpDone
<1> DEFINE r == runs[o].rel
<1>0. /\ dump \in [Ids -> Dump] /\ db \in [Sites -> Database] /\ 1 \in Sites
      /\ code \in [Hosts -> [Ids -> Tree]] /\ DbHost \in Hosts /\ runs \in [Operators -> Run]
      /\ LiveInv /\ OkAtEnd
  BY HostAssumption DEF BackupInv, DoneInv, LiveInv, TypeInv, TypeOK, Sites
<1>1. /\ runs'[o].rel = r /\ runs[o].cmd = "deploy"
      /\ Did(runs[o], "dump", DbHost) \/ Acts(o, "dump", DbHost)
  BY DidBefore DEF BackupInv, DoneInv
<1>2. CASE Acts(o, "dump", DbHost)
  <2>1. ~Did(runs'[o], "updatedb", DbHost)
    <3>1. ASSUME Did(runs'[o], "updatedb", DbHost) PROVE FALSE
      <4>1. Did(runs[o], "updatedb", DbHost)
        BY <1>0, <1>2, <3>1, DidBefore DEF Acts, UpdatesDone, CanUpdate, DumpTaken, DumpSkipped, At
      <4>2. Did(runs[o], "dump", DbHost)
        BY <1>0, <4>1, DidPlace, DoneTogether DEF Did
      <4> QED
        BY <1>2, <4>2, OnePlace DEF Acts, DumpTaken, DumpSkipped, At
    <3> QED
      BY <3>1
  <2>2. CASE DumpTaken(o)
    <3>1. r \in Ids
      BY <1>0, <2>2 DEF DumpTaken, Bootstraps, SettingsWork, LiveInv, TypeInv, TypeOK
    <3> QED
      BY <1>0, <1>1, <2>2, <3>1 DEF DumpTaken
  <2>3. CASE DumpSkipped(o)
    BY <1>1, <2>1, <2>3, DumpSkipReason DEF DumpSkipped, dataVars, diskVars
  <2> QED
    BY <1>2, <2>2, <2>3 DEF Acts
<1>3. CASE Did(runs[o], "dump", DbHost)
  <2>0. /\ runs[o].at \in DOMAIN Place["deploy"] /\ runs[o].status \in {"running", "ok"}
        /\ Running(o) => runs[o].at \in DOMAIN After["deploy"]
    BY <1>0, <1>1, <1>3, DidPlace DEF Did
  <2>1. r \in Ids
    BY <1>3, RelKnown DEF BackupInv
  <2>2. ASSUME NEW p \in Operators, NEW g \in Hosts, Puts(p, g) PROVE FALSE
    <3>1. runs[o].at = "copy" /\ Running(o)
      BY <2>2 DEF Puts, Copy, CopyBreaks, At, OneOperator
    <3> QED
      BY <1>1, <1>3, <2>0, <3>1, DoneBy
  <2>3. ASSUME NEW p \in Operators, Gunzip(p) \/ DropTables(p) \/ Import(p) PROVE FALSE
    <3>1. runs[o].at \in {"gunzip", "drop", "import"} /\ Running(o)
      BY <2>3 DEF Gunzip, DropTables, Import, At, OneOperator
    <3> QED
      BY <2>0, <3>1 DEF After
  <2>4. ASSUME NEW p \in Operators, DumpTaken(p) PROVE FALSE
    BY <1>3, <2>4, OnePlace DEF DumpTaken, At
  <2>5. /\ dump'[r] = dump[r] /\ code'[DbHost][r] = code[DbHost][r]
    <3>1. ASSUME NEW p \in Operators, NEW g \in Hosts, Deletes(p, g)
          PROVE  dump'[r] = dump[r] /\ code'[DbHost][r] = code[DbHost][r]
      <4>1. PICK gone : Remove(g, gone) /\ r \notin gone
        BY <3>1, DeletesKeep DEF OneOperator, BackupInv
      <4> QED
        BY <1>0, <2>1, <4>1, RemoveKeeps DEF BackupInv
    <3> QED
      BY <2>2, <2>3, <2>4, <3>1, WhoChangesDisk
  <2>6. db'[1].up = db[1].up
    <3>1. ASSUME NEW p \in Operators, NEW s \in Sites, UpdateHook(p, s) PROVE db'[1].up = db[1].up
      BY <1>0, <3>1 DEF UpdateHook, Database
    <3>2. ASSUME NEW s \in Sites, Edit(s) PROVE db'[1].up = db[1].up
      BY <1>0, <3>2 DEF Edit, Database
    <3> QED
      BY <2>3, <3>1, <3>2, WhoChangesRest
  <2>7. CASE dump[r].form = "gz"
    BY <1>1, <2>5, <2>7
  <2>8. CASE /\ ~Did(runs[o], "updatedb", DbHost)
             /\ ~(db[1].up /\ code[DbHost][r].boots)
    <3>1. ~Acts(o, "updatedb", DbHost)
      <4>1. ASSUME UpdatesDone(o) PROVE FALSE
        <5>1. Bootstraps(current[DbHost]) /\ Running(o) /\ runs[o].at = "updatedb"
          BY <4>1 DEF UpdatesDone, CanUpdate, At
        <5>2. current[DbHost] = r
          <6>1. Did(runs[o], "link", DbHost)
            BY <1>0, <1>1, <2>0, <5>1, DoneAt DEF Published
          <6> QED
            BY <1>0, <6>1 DEF BackupInv, DoneInv, LinkDone
        <5> QED
          BY <2>8, <5>1, <5>2 DEF Bootstraps, SettingsWork
      <4> QED
        BY <4>1 DEF Acts
    <3>2. ~Did(runs'[o], "updatedb", DbHost)
      BY <1>0, <2>8, <3>1, DidBefore
    <3> QED
      BY <1>1, <2>5, <2>6, <2>8, <3>2
  <2> QED
    BY <1>1, <1>3, <2>7, <2>8 DEF BackupInv, DumpDone
<1> QED
  BY <1>1, <1>2, <1>3


\* For any hosts, faults and bounds, when one operator runs cap and every revision's
\* own settings.php reaches the database: a deploy that ends well took a backup
\* (drush:sqldump), though the task passes over what it does not find without an error.
THEOREM DeployIsBackedUpSafe ==
  ASSUME TakeTurns, OneOperator, OwnSettings
  PROVE  Spec => []DeployIsBackedUp
<1>1. Init => BackupInv
  <2>1. Init => LinkedExist
    BY DEF Init, LinkedExist
  <2>2. Init => NotYetLinked /\ DumpDone
    BY DEF Init, NotYetLinked, DumpDone, Did, IdleRun, Running
  <2> QED
    BY <2>1, <2>2, DoneInit DEF ServedInv, BackupInv
<1>2. BackupInv /\ [Next]_vars => BackupInv'
  BY DoneStep, LinkedExistStep, NotYetLinkedStep, DumpDoneStep DEF BackupInv
<1>3. BackupInv => DeployIsBackedUp
  <2> SUFFICES ASSUME BackupInv, NEW o \in Operators, runs[o].status = "ok", runs[o].cmd = "deploy"
               PROVE  dump[runs[o].rel].form = "gz"
    BY DEF DeployIsBackedUp, Succeeded
  <2>1. Did(runs[o], "dump", DbHost) /\ Did(runs[o], "updatedb", DbHost)
    BY SuccessDid, DoneAt DEF BackupInv, Published
  <2> QED
    BY <2>1 DEF BackupInv, DumpDone
<1> QED
  BY <1>1, <1>2, <1>3, PTL DEF Spec

(***************************************************************************)
(* The tree that is deployed.  The exit statuses of git, npm, grunt and    *)
(* rsync are dropped, so this takes that they do not fail; what is left is *)
(* that each host gets its copy of the tree after the tree is complete,    *)
(* and that nothing an earlier run left in a cache gets into the release.  *)
(***************************************************************************)
NoHiddenFaults == Faults \cap {"git", "build", "push"} = {}

StagedWhole == staged.whole
HeadGrew == \A r \in Ids : base[r].head <= head
StageDone ==
  \A o \in Operators : Did(runs[o], "stage", Deployer) => base[runs[o].rel].head <= staged.src
BuildDone ==
  \A o \in Operators : Did(runs[o], "build", Deployer) => staged.built = staged.src
RsyncDone == \A o \in Operators, h \in Hosts : Did(runs[o], "rsync", h) => cache[h] = staged
CopyDone ==
  \A o \in Operators, h \in Hosts : Did(runs[o], "copy", h) => code[h][runs[o].rel] = staged
StagedInv ==
  DoneInv /\ StagedWhole /\ HeadGrew /\ StageDone /\ BuildDone /\ RsyncDone /\ CopyDone

\* The tree on the operator's machine changes at two steps, and not behind them.
LEMMA StagedStays ==
  ASSUME DoneInv, OneOperator, NoHiddenFaults, [Next]_vars, NEW o \in Operators,
         NEW s, NEW h, Did(runs[o], s, h)
  PROVE  /\ s \notin {"newpath", "pick"} => staged'.src = staged.src \/ Stage(o)
         /\ s \notin {"newpath", "pick", "stage"} => staged' = staged \/ Build(o)
         /\ s \in {"rsync", "copy"} => staged' = staged
<1>0. staged \in Tree /\ LiveInv /\ OkAtEnd
  BY DEF DoneInv, LiveInv, TypeInv, TypeOK
<1>1. Running(o) => runs[o].at \in DOMAIN After[runs[o].cmd]
  BY <1>0, DidPlace DEF Running
<1>2. ASSUME Stage(o) PROVE s \in {"newpath", "stage"}
  BY <1>1, <1>2, DoneBy DEF Stage, At
<1>3. ASSUME Build(o) PROVE s \in {"newpath", "stage", "build"} /\ staged'.src = staged.src
  BY <1>0, <1>1, <1>3, DoneBy DEF Build, At, Tree
<1>4. staged' = staged \/ Stage(o) \/ Build(o)
  BY WhoChangesRest DEF OneOperator
<1> QED
  BY <1>2, <1>3, <1>4

\* The name is chosen once.
LEMMA NamedOnce ==
  ASSUME DoneInv, TakeTurns, OneOperator, [Next]_vars, NEW o \in Operators,
         NEW s, NEW h, Did(runs[o], s, h), Did(runs'[o], s, h),
         s = "newpath" => h = Deployer, s # "pick"
  PROVE  base' = base /\ runs'[o].rel = runs[o].rel
<1>0. LiveInv /\ OkAtEnd /\ runs \in [Operators -> Run]
  BY DEF DoneInv, LiveInv, TypeInv, TypeOK
<1>1. Running(o) => runs[o].at \in DOMAIN After[runs[o].cmd]
  BY <1>0, DidPlace DEF Running
<1>2. ~NewPath(o)
  <2> SUFFICES ASSUME NewPath(o) PROVE FALSE
    OBVIOUS
  <2>1. s = "newpath"
    BY <1>1, DoneBy DEF NewPath, At
  <2> QED
    BY <2>1, OnePlace DEF NewPath, At
<1>3. \A g \in Hosts : ~Pick(o, g)
  BY <1>1, DoneBy DEF Pick, At
<1> QED
  BY <1>0, <1>2, <1>3, DidBefore, WhoChangesRest DEF OneOperator

LEMMA StageDoneStep ==
  ASSUME StagedInv, TakeTurns, OneOperator, NoHiddenFaults, [Next]_vars
  PROVE  HeadGrew' /\ StageDone' /\ BuildDone' /\ StagedWhole'
<1>0. /\ staged \in Tree /\ head \in Nat /\ DoneInv /\ LiveInv /\ OkAtEnd
      /\ runs \in [Operators -> Run] /\ base \in [Ids -> [edits : 0..MaxEdits, head : Revs]]
      /\ head' \in Nat /\ head <= head'
  <2>1. head \in Nat
    BY BoundAssumption DEF StagedInv, DoneInv, LiveInv, TypeInv, TypeOK, Revs
  <2>2. head' \in Nat /\ head <= head'
    BY <2>1, WhoChangesRest DEF Push
  <2> QED
    BY <2>1, <2>2 DEF StagedInv, DoneInv, LiveInv, TypeInv, TypeOK
<1>a. DoneInv /\ LiveInv /\ OkAtEnd
  BY DEF StagedInv, DoneInv
<1>1. ASSUME NEW r \in Ids PROVE base'[r].head <= head'
  <2>1. base[r].head \in Nat /\ base[r].head <= head
    BY <1>0, BoundAssumption DEF StagedInv, HeadGrew, Revs
  <2>2. ASSUME NEW o \in Operators, NewPath(o) PROVE base'[r].head \in {head, base[r].head}
    BY <1>0, <2>2 DEF NewPath
  <2>3. base'[r].head \in {head, base[r].head}
    BY <2>2, WhoChangesRest
  <2> QED
    BY <1>0, <2>1, <2>3
<1>2. ASSUME NEW o \in Operators, Did(runs'[o], "stage", Deployer)
      PROVE  base'[runs'[o].rel].head <= staged'.src
  <2>1. CASE Stage(o)
    <3>1. runs[o].rel \in Ids
      BY <1>a, <2>1 DEF Stage, At, Running, LiveInv, TypeInv, RunsOk, RunOk
    <3>2. staged'.src = head /\ base' = base
      BY <1>0, <2>1 DEF Stage, NoHiddenFaults, nameVars, Tree
    <3>3. runs'[o].rel = runs[o].rel
      BY <1>a, <1>2, DidBefore
    <3> QED
      BY <1>0, <3>1, <3>2, <3>3 DEF StagedInv, HeadGrew
  <2>2. CASE ~Stage(o)
    <3>1. Did(runs[o], "stage", Deployer)
      BY <1>a, <1>2, <2>2, DidBefore DEF Acts
    <3>2. base' = base /\ runs'[o].rel = runs[o].rel
      BY <1>a, <1>2, <3>1, NamedOnce
    <3>3. staged'.src = staged.src
      BY <1>a, <2>2, <3>1, StagedStays
    <3> QED
      BY <3>1, <3>2, <3>3 DEF StagedInv, StageDone
  <2> QED
    BY <2>1, <2>2
<1>3. ASSUME NEW o \in Operators, Did(runs'[o], "build", Deployer)
      PROVE  staged'.built = staged'.src
  <2>1. CASE Build(o)
    BY <1>0, <2>1 DEF Build, NoHiddenFaults, Tree
  <2>2. CASE ~Build(o)
    <3>1. Did(runs[o], "build", Deployer)
      BY <1>a, <1>3, <2>2, DidBefore DEF Acts
    <3> QED
      BY <1>a, <2>2, <3>1, StagedStays DEF StagedInv, BuildDone
  <2> QED
    BY <2>1, <2>2
<1>4. staged'.whole
  BY <1>0, WhoChangesRest DEF StagedInv, StagedWhole, Stage, Build, Tree
<1> QED
  BY <1>1, <1>2, <1>3, <1>4 DEF HeadGrew, StageDone, BuildDone, StagedWhole

LEMMA CopyDoneStep ==
  ASSUME StagedInv, TakeTurns, OneOperator, NoHiddenFaults, [Next]_vars
  PROVE  RsyncDone' /\ CopyDone'
<1>0. /\ DoneInv /\ LiveInv /\ OkAtEnd /\ cache \in [Hosts -> Tree]
      /\ code \in [Hosts -> [Ids -> Tree]] /\ releases \in [Hosts -> SUBSET Ids]
  BY DEF StagedInv, DoneInv, LiveInv, TypeInv, TypeOK
<1>a. DoneInv /\ LiveInv
  BY DEF StagedInv, DoneInv
<1>1. ASSUME NEW o \in Operators, NEW h \in Hosts, Did(runs'[o], "rsync", h)
      PROVE  cache'[h] = staged'
  <2>1. CASE Rsync(o, h)
    BY <1>0, <2>1 DEF Rsync, NoHiddenFaults
  <2>2. CASE ~Rsync(o, h)
    <3>1. Did(runs[o], "rsync", h)
      BY <1>a, <1>1, <2>2, DidBefore DEF Acts
    <3>2. staged' = staged /\ cache[h] = staged
      BY <1>0, <3>1, StagedStays DEF StagedInv, RsyncDone
    <3>3. ASSUME NEW p \in Operators, NEW g \in Hosts, Rsync(p, g) PROVE cache'[h] = cache[h]
      <4>1. g # h
        BY <3>1, <3>3, OnePlace DEF Rsync, At
      <4> QED
        BY <1>0, <3>3, <4>1 DEF Rsync
    <3> QED
      BY <3>2, <3>3, WhoChangesRest
  <2> QED
    BY <2>1, <2>2
<1>2. ASSUME NEW o \in Operators, NEW h \in Hosts, Did(runs'[o], "copy", h)
      PROVE  code'[h][runs'[o].rel] = staged'
  <2>1. CASE Copy(o, h)
    <3>1. runs'[o].rel = runs[o].rel
      BY <1>a, <1>2, DidBefore
    <3>2. runs[o].status \in {"running", "ok"} /\ runs[o].at = "copy" /\ runs[o].rel \in Ids
      BY <2>1 DEF Copy, At, Running, DoneInv, LiveInv, TypeInv, RunsOk, RunOk, StagedInv
    <3>3. cache[h] = staged
      BY <1>0, <3>2, DidPlace, DoneAt DEF StagedInv, RsyncDone
    <3> QED
      BY <1>0, <2>1, <3>1, <3>2, <3>3 DEF Copy, PutRelease, sourceVars
  <2>2. CASE ~Copy(o, h)
    <3>1. Did(runs[o], "copy", h) /\ runs'[o].rel = runs[o].rel
      BY <1>a, <1>2, <2>2, DidBefore DEF Acts
    <3>2. staged' = staged /\ code[h][runs[o].rel] = staged
      BY <1>0, <3>1, StagedStays DEF StagedInv, CopyDone
    <3>3. ASSUME NEW p \in Operators, NEW g \in Hosts, Puts(p, g) PROVE code'[h] = code[h]
      <4>1. g # h
        BY <3>1, <3>3, OnePlace DEF Puts, Copy, CopyBreaks, At
      <4> QED
        BY <1>0, <3>3, <4>1 DEF Puts, Copy, CopyBreaks, PutRelease
    <3>4. ASSUME NEW p \in Operators, NEW g \in Hosts, Deletes(p, g)
          PROVE  code'[h][runs[o].rel] = code[h][runs[o].rel]
      <4>1. PICK gone : Remove(g, gone) /\ runs[o].rel \notin gone
        BY <1>0, <3>4, DeletesKeep DEF OneOperator
      <4>2. runs[o].rel \in Ids
        BY <1>a, <3>1, RelKnown
      <4> QED
        BY <1>0, <4>1, <4>2, RemoveKeeps
    <3> QED
      BY <3>1, <3>2, <3>3, <3>4, WhoChangesDisk
  <2> QED
    BY <2>1, <2>2
<1> QED
  BY <1>1, <1>2 DEF RsyncDone, CopyDone

\* For any hosts and bounds, when one operator runs cap, remote commands may fail or
\* break off at any step, but git, the build and the pushes do not fail unseen: a
\* deploy that ends well put one tree on every host, complete, built from its own
\* commit, and no older than the branch when it began (rsync:stage, web:build, rsync,
\* rsync:release).
THEOREM DeployIsStagedSafe ==
  ASSUME TakeTurns, OneOperator, NoHiddenFaults
  PROVE  Spec => []DeployIsStaged
<1>1. Init => StagedInv
  <2>1. \A o \in Operators : Init => runs[o].status = "idle"
    BY DEF Init, IdleRun
  <2>2. Init => StageDone /\ BuildDone /\ RsyncDone /\ CopyDone
    BY <2>1 DEF Init, StageDone, BuildDone, RsyncDone, CopyDone, Did
  <2>3. Init => StagedWhole /\ HeadGrew
    BY DEF Init, StagedWhole, FirstTree, HeadGrew
  <2> QED
    BY <2>2, <2>3, DoneInit DEF ServedInv, StagedInv
<1>2. StagedInv /\ [Next]_vars => StagedInv'
  BY DoneStep, StageDoneStep, CopyDoneStep DEF StagedInv
<1>3. StagedInv => DeployIsStaged
  <2> SUFFICES ASSUME StagedInv, NEW o \in Operators, runs[o].status = "ok", runs[o].cmd = "deploy"
               PROVE  \E tree \in Tree :
                        /\ tree.whole /\ tree.built = tree.src
                        /\ tree.src >= base[runs[o].rel].head
                        /\ \A h \in Hosts : code[h][runs[o].rel] = tree
    BY DEF DeployIsStaged, Succeeded
  <2>1. /\ \A h \in Hosts : Did(runs[o], "copy", h)
        /\ Did(runs[o], "stage", Deployer) /\ Did(runs[o], "build", Deployer)
    BY SuccessDid, DoneAt DEF StagedInv
  <2>2. staged \in Tree
    BY DEF StagedInv, DoneInv, LiveInv, TypeInv, TypeOK
  <2>3. base[runs[o].rel].head \in Nat /\ staged.src \in Nat
    <3>1. runs[o].rel \in Ids
      BY <2>1, RelKnown DEF StagedInv
    <3> QED
      BY <2>2, <3>1, BoundAssumption DEF StagedInv, DoneInv, LiveInv, TypeInv, TypeOK, Tree, Revs
  <2>4. staged.src >= base[runs[o].rel].head
    BY <2>1, <2>3 DEF StagedInv, StageDone
  <2> QED
    BY <2>1, <2>2, <2>4 DEF StagedInv, StagedWhole, BuildDone, CopyDone
<1> QED
  BY <1>1, <1>2, <1>3, PTL DEF Spec


(***************************************************************************)
(* The release to roll back to.  "ls -t" puts the releases of a host in    *)
(* the order they were last touched; a rollback takes the second.          *)
(***************************************************************************)
\* N says of each release in S which were touched after it: a strict linear order.
Ordered(N, S) ==
  /\ \A r \in S : N[r] \subseteq S \ {r}
  /\ \A r, s \in S : r = s \/ r \in N[s] \/ s \in N[r]
  /\ \A r, s \in S : s \in N[r] => N[s] \subseteq N[r]
TouchOrder == \A h \in Hosts : Ordered(newer[h], releases[h])

BeforeCopy(run, h) ==
  /\ run.status = "running" /\ run.cmd = "deploy"
  /\ run.at \in {"stage", "build", "rsync"} \/ (run.at = "copy" /\ h \in run.todo)
FreshName ==
  \A o \in Operators, h \in Hosts : BeforeCopy(runs[o], h) => runs[o].rel \notin releases[h]
CopyTouched ==
  \A o \in Operators, h \in Hosts :
    Did(runs[o], "copy", h) =>
      /\ runs[o].rel \in releases[h] /\ newer[h][runs[o].rel] = {}
      /\ KeepReleases > 1 => \E r \in releases[h] : r # runs[o].rel
ReadyInv == DoneInv /\ TouchOrder /\ FreshName /\ CopyTouched

\* The second of the order, when the first is known and there is another.
LEMMA SecondTouched ==
  ASSUME NEW S \in SUBSET Ids, NEW N, Ordered(N, S), NEW f \in S, N[f] = {},
         NEW t \in S, t # f
  PROVE  \E r \in S : N[r] = {f}
<1>1. IsFiniteSet(S)
  <2>1. IsFiniteSet(Ids)
    BY BoundAssumption, FS_Interval DEF Ids
  <2> QED
    BY <2>1, FS_Subset
<1>2. \A r \in S : IsFiniteSet(N[r]) /\ Cardinality(N[r]) \in Nat
  <2>1. \A r \in S : N[r] \subseteq S
    BY DEF Ordered
  <2> QED
    BY <1>1, <2>1, FS_Subset, FS_CardinalityType
<1> DEFINE C == {Cardinality(N[r]) : r \in S \ {f}}
<1>3. C \in SUBSET Nat /\ C # {}
  BY <1>2
<1>4. PICK m \in C : \A k \in C : m <= k
  BY <1>3, Oldest
<1>5. PICK r \in S \ {f} : Cardinality(N[r]) = m
  BY <1>4
<1>6. f \in N[r]
  BY <1>5 DEF Ordered
<1>7. ASSUME NEW s \in N[r], s # f PROVE FALSE
  <2>1. s \in S \ {f} /\ N[s] \subseteq N[r] /\ s \notin N[s]
    BY <1>5, <1>7 DEF Ordered
  <2>2. Cardinality(N[s]) <= Cardinality(N[r]) /\ Cardinality(N[s]) # Cardinality(N[r])
    <3>1. N[s] # N[r]
      BY <1>7, <2>1
    <3> QED
      BY <1>2, <1>5, <2>1, <3>1, FS_Subset
  <2>3. Cardinality(N[s]) \in C
    BY <2>1
  <2>4. m <= Cardinality(N[s])
    BY <1>4, <2>3
  <2> QED
    BY <1>2, <1>5, <2>1, <2>2, <2>4
<1> QED
  BY <1>5, <1>6, <1>7

LEMMA TouchOrdered ==
  ASSUME DoneInv, TouchOrder, NEW h \in Hosts, NEW r \in Ids, Touch(h, r),
         NEW g \in Hosts,
         releases'[g] = IF g = h THEN releases[h] \cup {r} ELSE releases[g]
  PROVE  /\ Ordered(newer'[g], releases'[g])
         /\ g # h => newer'[g] = newer[g]
         /\ newer'[h][r] = {}
<1>1. newer \in [Hosts -> [Ids -> SUBSET Ids]] /\ releases \in [Hosts -> SUBSET Ids]
  BY DEF DoneInv, LiveInv, TypeInv, TypeOK
<1>2. Ordered(newer[g], releases[g])
  BY DEF TouchOrder
<1>3. CASE g # h
  BY <1>1, <1>2, <1>3 DEF Touch
<1>4. CASE g = h
  <2> DEFINE N == newer[h]
             M == newer'[h]
             S == releases[h]
  <2>1. M[r] = {} /\ \A s \in S \ {r} : M[s] = N[s] \cup {r}
    BY <1>1 DEF Touch
  <2>2. Ordered(N, S) /\ releases'[h] = S \cup {r}
    BY <1>2, <1>4
  <2> HIDE DEF M, N, S
  <2>3. Ordered(M, S \cup {r})
    <3>1. \A q \in S \cup {r} : M[q] \subseteq (S \cup {r}) \ {q}
      BY <2>1, <2>2 DEF Ordered
    <3>2. \A q, s \in S \cup {r} : q = s \/ q \in M[s] \/ s \in M[q]
      BY <2>1, <2>2 DEF Ordered
    <3>3. \A q, s \in S \cup {r} : s \in M[q] => M[s] \subseteq M[q]
      BY <2>1, <2>2 DEF Ordered
    <3> QED
      BY <3>1, <3>2, <3>3 DEF Ordered
  <2> QED
    BY <1>4, <2>1, <2>2, <2>3 DEF M
<1> QED
  BY <1>3, <1>4


LEMMA RemoveOrdered ==
  ASSUME DoneInv, TouchOrder, NEW h \in Hosts, NEW gone, Remove(h, gone), NEW g \in Hosts
  PROVE  Ordered(newer'[g], releases'[g])
<1>1. newer \in [Hosts -> [Ids -> SUBSET Ids]] /\ releases \in [Hosts -> SUBSET Ids]
  BY DEF DoneInv, LiveInv, TypeInv, TypeOK
<1>2. Ordered(newer[g], releases[g])
  BY DEF TouchOrder
<1>3. CASE g # h
  BY <1>1, <1>2, <1>3 DEF Remove
<1>4. CASE g = h
  <2> DEFINE N == newer[h]
             M == newer'[h]
             S == releases[h]
  <2>1. \A s \in S \ gone : M[s] = N[s] \ gone
    BY <1>1 DEF Remove
  <2>2. Ordered(N, S) /\ releases'[h] = S \ gone
    BY <1>1, <1>2, <1>4 DEF Remove
  <2> HIDE DEF M, N, S
  <2>3. Ordered(M, S \ gone)
    <3>1. \A q \in S \ gone : M[q] \subseteq (S \ gone) \ {q}
      BY <2>1, <2>2 DEF Ordered
    <3>2. \A q, s \in S \ gone : q = s \/ q \in M[s] \/ s \in M[q]
      BY <2>1, <2>2 DEF Ordered
    <3>3. \A q, s \in S \ gone : s \in M[q] => M[s] \subseteq M[q]
      BY <2>1, <2>2 DEF Ordered
    <3> QED
      BY <3>1, <3>2, <3>3 DEF Ordered
  <2> QED
    BY <1>4, <2>2, <2>3 DEF M
<1> QED
  BY <1>3, <1>4

\* The steps that touch a release leave the order of the others.
LEMMA TouchSteps ==
  ASSUME DoneInv, TouchOrder, NEW o \in Operators,
         \/ DumpTaken(o) \/ Gunzip(o)
         \/ \E h \in Hosts : Puts(o, h)
  PROVE  TouchOrder'
<1>0. /\ releases \in [Hosts -> SUBSET Ids] /\ DbHost \in Hosts
      /\ Running(o) => RunOk(runs[o])
  BY HostAssumption DEF DoneInv, LiveInv, TypeInv, TypeOK, RunsOk
<1>1. \E h \in Hosts, r \in Ids :
        Touch(h, r) /\ releases' = [releases EXCEPT ![h] = @ \cup {r}]
  <2>1. CASE DumpTaken(o)
    <3>1. /\ Touch(DbHost, runs[o].rel) /\ releases' = releases
          /\ runs[o].rel \in releases[DbHost]
      BY <2>1 DEF DumpTaken, Bootstraps, SettingsWork
    <3>2. releases' = [releases EXCEPT ![DbHost] = @ \cup {runs[o].rel}]
      BY <1>0, <3>1
    <3> QED
      BY <1>0, <3>1, <3>2
  <2>2. CASE Gunzip(o)
    <3>1. PICK last \in releases[DbHost] : Touch(DbHost, last) /\ releases' = releases
      BY <2>2 DEF Gunzip, Newest
    <3>2. releases' = [releases EXCEPT ![DbHost] = @ \cup {last}]
      BY <1>0, <3>1
    <3> QED
      BY <1>0, <3>1, <3>2
  <2>3. CASE \E h \in Hosts : Puts(o, h)
    <3>1. PICK h \in Hosts : /\ Touch(h, runs[o].rel)
                            /\ releases' = [releases EXCEPT ![h] = @ \cup {runs[o].rel}]
                            /\ runs[o].at = "copy" /\ Running(o)
      BY <2>3 DEF Puts, Copy, CopyBreaks, PutRelease, At
    <3>2. runs[o].rel \in Ids
      BY <1>0, <3>1 DEF RunOk, Running
    <3> QED
      BY <3>1, <3>2
  <2> QED
    BY <2>1, <2>2, <2>3
<1>2. PICK h \in Hosts, r \in Ids :
        Touch(h, r) /\ releases' = [releases EXCEPT ![h] = @ \cup {r}]
  BY <1>1
<1>3. ASSUME NEW g \in Hosts PROVE Ordered(newer'[g], releases'[g])
  <2>1. releases'[g] = IF g = h THEN releases[h] \cup {r} ELSE releases[g]
    BY <1>0, <1>2
  <2> QED
    BY <1>2, <2>1, TouchOrdered
<1> QED
  BY <1>3 DEF TouchOrder

LEMMA TouchOrderStep ==
  ASSUME DoneInv, TouchOrder, [Next]_vars
  PROVE  TouchOrder'
<1>1. ASSUME NEW o \in Operators, NEW h \in Hosts, Deletes(o, h) PROVE TouchOrder'
  BY <1>1, DeletesKeep, RemoveOrdered DEF TouchOrder
<1>2. CASE newer' = newer /\ releases' = releases
  BY <1>2 DEF TouchOrder
<1>3. \/ newer' = newer /\ releases' = releases
      \/ \E o \in Operators : DumpTaken(o) \/ Gunzip(o) \/ \E h \in Hosts : Puts(o, h)
      \/ \E o \in Operators, h \in Hosts : Deletes(o, h)
  BY WhoChangesDisk
<1> QED
  BY <1>1, <1>2, <1>3, TouchSteps

LEMMA FreshNameStep ==
  ASSUME ReadyInv, TakeTurns, OneOperator, [Next]_vars
  PROVE  FreshName'
<1> SUFFICES ASSUME NEW o \in Operators, NEW h \in Hosts, BeforeCopy(runs'[o], h)
             PROVE  runs'[o].rel \notin releases'[h]
  BY DEF FreshName, BeforeCopy
<1>0. LiveInv /\ runs \in [Operators -> Run] /\ releases \in [Hosts -> SUBSET Ids]
  BY DEF ReadyInv, DoneInv, LiveInv, TypeInv, TypeOK
<1>1. CASE NewPath(o)
  BY <1>0, <1>1, NamedHighest DEF NewPath, diskVars
<1>2. CASE ~NewPath(o)
  <2>1. runs'[o].at \in BeforeLink /\ runs'[o].cmd = "deploy" /\ Running(o)'
    BY DEF BeforeCopy, BeforeLink, Running
  <2>2. /\ Running(o) /\ runs[o].at \in BeforeLink /\ runs[o].cmd = "deploy"
        /\ runs'[o].rel = runs[o].rel
    BY <1>0, <1>2, <2>1, BeforeLinkBefore
  <2>3. BeforeCopy(runs[o], h) /\ ~Copy(o, h)
    <3>1. CASE runs' = runs
      <4>1. ASSUME Copy(o, h) PROVE FALSE
        <5>1. Moved(o, h)
          BY <1>0, <4>1, ActsMove DEF Acts
        <5> QED
          BY <1>0, <3>1, <5>1 DEF Moved, BeforeCopy, After
      <4> QED
        BY <3>1, <4>1
    <3>2. ASSUME NEW p \in Operators, Fresh(p) PROVE FALSE
      BY <1>0, <2>1, <3>2 DEF Fresh, OneOperator, BeforeLink, Running
    <3>3. ASSUME NEW p \in Operators, NEW t, NEW g, Acts(p, t, g)
          PROVE  BeforeCopy(runs[o], h) /\ ~Copy(o, h)
      <4>1. Moved(o, g)
        BY <1>0, <3>3, ActsMove DEF OneOperator
      <4>2. /\ runs[o].status = "running" /\ runs[o].cmd = "deploy"
            /\ \/ runs'[o].at = runs[o].at /\ runs'[o].todo = runs[o].todo \ {g}
               \/ runs'[o].at = After["deploy"][runs[o].at]
        BY <1>0, <2>2, <4>1 DEF Moved, Running
      <4>3. BeforeCopy(runs[o], h)
        BY <2>2, <4>2 DEF BeforeCopy, BeforeLink, After
      <4>4. ASSUME Copy(o, h) PROVE FALSE
        <5>1. Moved(o, h) /\ runs[o].at = "copy"
          BY <1>0, <4>4, ActsMove DEF Acts, Copy, At
        <5>2. \/ runs'[o].at = "copy" /\ runs'[o].todo = runs[o].todo \ {h}
              \/ runs'[o].at = "dump"
          BY <1>0, <2>2, <5>1 DEF Moved, After
        <5> QED
          BY <5>2 DEF BeforeCopy
      <4> QED
        BY <4>3, <4>4
    <3> QED
      BY <1>0, <3>1, <3>2, <3>3, RunSteps
  <2>4. runs[o].rel \notin releases[h]
    BY <2>3 DEF ReadyInv, FreshName
  <2>5. ASSUME NEW p \in Operators, NEW g \in Hosts, Puts(p, g) PROVE releases'[h] = releases[h]
    <3>1. Copy(o, g) \/ CopyBreaks(o, g)
      BY <2>5 DEF Puts, OneOperator
    <3>2. ~CopyBreaks(o, g)
      BY <1>0, <2>1 DEF CopyBreaks, Stop, IdleRun, Running
    <3>3. g # h
      BY <2>3, <3>1, <3>2
    <3> QED
      BY <1>0, <2>5, <3>3 DEF Puts, Copy, CopyBreaks, PutRelease
  <2>6. ASSUME NEW p \in Operators, NEW g \in Hosts, Deletes(p, g)
        PROVE  releases'[h] \subseteq releases[h]
    BY <1>0, <2>6 DEF Deletes, Cleanup, Archive, Remove
  <2> QED
    BY <2>2, <2>4, <2>5, <2>6, WhoChangesDisk
<1> QED
  BY <1>1, <1>2


\* deploy:cleanup leaves two releases when it may and there are two.
LEMMA KeptTwo ==
  ASSUME NEW S \in SUBSET Ids, NEW f \in S, \A s \in S : s <= f,
         NEW t \in S, t # f, KeepReleases > 1
  PROVE  \E r \in Kept(S) : r # f
<1>0. S \in SUBSET Nat /\ \A s \in S : s <= MaxReleases
  BY BoundAssumption DEF Ids
<1> DEFINE D == {MaxReleases - s : s \in S \ {f}}
<1>1. D \in SUBSET Nat /\ D # {}
  BY <1>0, BoundAssumption
<1>2. PICK m \in D : \A d \in D : m <= d
  BY <1>1, Oldest
<1>3. PICK r \in S \ {f} : m = MaxReleases - r
  BY <1>2
<1>4. \A s \in S \ {f} : s <= r
  BY <1>0, <1>2, <1>3, BoundAssumption
<1>5. {s \in S : s > r} \subseteq {f}
  <2>1. \A s \in S : s > r => s = f
    BY <1>0, <1>3, <1>4
  <2> QED
    BY <2>1
<1>6. Cardinality({s \in S : s > r}) <= 1
  <2>1. IsFiniteSet({f}) /\ Cardinality({f}) = 1
    BY FS_Singleton
  <2> QED
    BY <1>5, <2>1, FS_Subset
<1>7. Cardinality({s \in S : s > r}) \in Nat
  <2>1. IsFiniteSet({f})
    BY FS_Singleton
  <2> QED
    BY <1>5, <2>1, FS_Subset, FS_CardinalityType
<1>8. Cardinality({s \in S : s > r}) < KeepReleases
  BY <1>6, <1>7, KeepAssumption
<1> QED
  BY <1>3, <1>8 DEF Kept

LEMMA CopyTouchedStep ==
  ASSUME ReadyInv, TakeTurns, OneOperator, [Next]_vars
  PROVE  CopyTouched'
<1> SUFFICES ASSUME NEW o \in Operators, NEW h \in Hosts, Did(runs'[o], "copy", h)
             PROVE  /\ runs'[o].rel \in releases'[h] /\ newer'[h][runs'[o].rel] = {}
                    /\ KeepReleases > 1 => \E r \in releases'[h] : r # runs'[o].rel
  BY DEF CopyTouched
<1>a. DoneInv /\ LiveInv
  BY DEF ReadyInv, DoneInv
<1>0. /\ releases \in [Hosts -> SUBSET Ids] /\ newer \in [Hosts -> [Ids -> SUBSET Ids]]
      /\ DbHost \in Hosts
  BY HostAssumption DEF ReadyInv, DoneInv, LiveInv, TypeInv, TypeOK
<1> DEFINE f == runs[o].rel
<1>1. /\ runs'[o].rel = f /\ (Did(runs[o], "copy", h) \/ Acts(o, "copy", h))
      /\ runs[o].cmd = "deploy"
  <2>1. runs'[o].cmd = "deploy"
    BY DEF Did, After
  <2> QED
    BY <1>a, <2>1, DidBefore
<1>2. CASE Acts(o, "copy", h)
  <2>1. Copy(o, h) /\ runs[o].at = "copy" /\ h \in runs[o].todo /\ Running(o)
    BY <1>2 DEF Acts, Copy, At
  <2>2. f \in Ids /\ f \notin releases[h]
    BY <1>1, <2>1
    DEF ReadyInv, FreshName, BeforeCopy, Running, DoneInv, LiveInv, TypeInv, RunsOk, RunOk
  <2>3. current[h] \in releases[h]
    BY <1>a DEF LiveInv, LiveReleaseExists
  <2>4. releases'[h] = releases[h] \cup {f} /\ newer'[h][f] = {}
    BY <1>0, <2>1, <2>2 DEF Copy, PutRelease, Touch
  <2> QED
    BY <1>1, <2>2, <2>3, <2>4
<1>3. CASE Did(runs[o], "copy", h)
  <2>1. /\ f \in releases[h] /\ newer[h][f] = {} /\ f \in Ids
        /\ KeepReleases > 1 => \E r \in releases[h] : r # f
    BY <1>0, <1>3 DEF ReadyInv, CopyTouched
  <2>2. Running(o) => runs[o].at \in DOMAIN After["deploy"]
    BY <1>a, <1>1, DidPlace DEF DoneInv, Running
  <2>3. ASSUME NEW p \in Operators, NEW g \in Hosts, Puts(p, g)
        PROVE  releases'[h] = releases[h] /\ newer'[h] = newer[h]
    <3>1. h # g
      BY <1>3, <2>3, OnePlace DEF Puts, Copy, CopyBreaks, At
    <3> QED
      BY <1>0, <2>3, <3>1 DEF Puts, Copy, CopyBreaks, PutRelease, Touch
  <2>4. ASSUME NEW p \in Operators, DumpTaken(p)
        PROVE  releases'[h] = releases[h] /\ newer'[h][f] = {}
    <3>1. Touch(DbHost, f) /\ releases' = releases
      BY <2>4 DEF DumpTaken, OneOperator
    <3> QED
      BY <1>0, <2>1, <3>1 DEF Touch
  <2>5. ASSUME NEW p \in Operators, NEW g \in Hosts, Gunzip(p) \/ Archive(p, g) PROVE FALSE
    <3>1. Running(o) /\ runs[o].at \in {"gunzip", "archive"}
      BY <2>5 DEF Gunzip, Archive, At, OneOperator
    <3> QED
      BY <2>2, <3>1 DEF After
  <2>6. ASSUME NEW p \in Operators, NEW g \in Hosts, Cleanup(p, g)
        PROVE  /\ f \in releases'[h] /\ newer'[h][f] = {}
               /\ KeepReleases > 1 => \E r \in releases'[h] : r # f
    <3>1. PICK gone : Remove(g, gone) /\ f \notin gone
      BY <1>a, <2>6, DeletesKeep DEF OneOperator, Deletes
    <3>2. newer'[h][f] = {} /\ f \in releases'[h]
      BY <1>0, <2>1, <3>1 DEF Remove
    <3>3. KeepReleases > 1 => \E r \in releases'[h] : r # f
      <4>1. CASE g # h
        BY <1>0, <2>1, <2>6, <4>1 DEF Cleanup, Remove
      <4>2. CASE g = h
        <5>1. releases'[h] = Kept(releases[h])
          BY <1>0, <2>6, <4>2 DEF Cleanup, Remove, Kept
        <5>2. \A s \in releases[h] : s <= f
          <6>1. Running(o) /\ runs[o].at = "cleanup"
            BY <2>6 DEF Cleanup, At, OneOperator
          <6>2. f = lastId
            BY <1>1, <1>a, <6>1 DEF LiveInv, RunsLive, RunLive
          <6> QED
            BY <1>a, <6>2 DEF LiveInv, NamesGiven
        <5> SUFFICES ASSUME KeepReleases > 1 PROVE \E r \in releases'[h] : r # f
          OBVIOUS
        <5>3. PICK S \in SUBSET Ids : S = releases[h]
          BY <1>0
        <5> PICK first : first = f
          OBVIOUS
        <5>4. first \in S /\ \A s \in S : s <= first
          BY <2>1, <5>2, <5>3
        <5>5. PICK t \in S : t # first
          BY <2>1, <5>3
        <5>6. \E r \in Kept(S) : r # first
          BY <5>4, <5>5, KeptTwo
        <5> QED
          BY <5>1, <5>3, <5>6
      <4> QED
        BY <4>1, <4>2
    <3> QED
      BY <3>2, <3>3
  <2>7. \/ releases' = releases /\ newer' = newer
        \/ \E p \in Operators : DumpTaken(p) \/ Gunzip(p)
        \/ \E p \in Operators, g \in Hosts : Puts(p, g) \/ Archive(p, g) \/ Cleanup(p, g)
    BY WhoChangesDisk DEF Deletes
  <2> QED
    BY <1>0, <1>1, <2>1, <2>3, <2>4, <2>5, <2>6, <2>7
<1> QED
  BY <1>1, <1>2, <1>3

ReadyOnHost(o, h) ==
  \E r \in releases[h] : r # runs[o].rel /\ newer[h][r] = {runs[o].rel}
ReadyOnHosts ==
  KeepReleases > 1 =>
    \A o \in Operators : Succeeded(o, {"deploy"}) => \A h \in Hosts : ReadyOnHost(o, h)

LEMMA InitReady == Init => ReadyInv
<1> SUFFICES ASSUME Init PROVE ReadyInv
  OBVIOUS
<1>1. \A o \in Operators : runs[o].status = "idle"
  BY DEF Init, IdleRun
<1>2. ASSUME NEW h \in Hosts PROVE Ordered(newer[h], releases[h])
  <2>1. releases[h] = {1} /\ newer[h][1] = {}
    BY BoundAssumption DEF Init, Ids
  <2> QED
    BY <2>1 DEF Ordered
<1>3. TouchOrder
  BY <1>2 DEF TouchOrder
<1> QED
  BY <1>1, <1>3, DoneInit
  DEF ServedInv, ReadyInv, FreshName, BeforeCopy, CopyTouched, Did

LEMMA ReadyStep == ReadyInv /\ TakeTurns /\ OneOperator /\ [Next]_vars => ReadyInv'
BY DoneStep, TouchOrderStep, FreshNameStep, CopyTouchedStep DEF ReadyInv

LEMMA ReadyIsReady == ReadyInv => ReadyOnHosts
<1> SUFFICES ASSUME ReadyInv, KeepReleases > 1, NEW o \in Operators,
                    runs[o].status = "ok", runs[o].cmd = "deploy", NEW h \in Hosts
             PROVE  ReadyOnHost(o, h)
  BY DEF ReadyOnHosts, Succeeded
<1>1. Did(runs[o], "copy", h)
  BY SuccessDid, DoneAt DEF ReadyInv
<1>2. /\ runs[o].rel \in releases[h] /\ newer[h][runs[o].rel] = {}
      /\ \E r \in releases[h] : r # runs[o].rel
  BY <1>1 DEF ReadyInv, CopyTouched
<1>3. Ordered(newer[h], releases[h]) /\ releases[h] \in SUBSET Ids
  BY DEF ReadyInv, TouchOrder, DoneInv, LiveInv, TypeInv, TypeOK
<1>4. PICK t \in releases[h] : t # runs[o].rel
  BY <1>2
<1>5. \E r \in releases[h] : newer[h][r] = {runs[o].rel}
  <2> DEFINE S == releases[h]
             N == newer[h]
             f == runs[o].rel
  <2>1. S \in SUBSET Ids /\ Ordered(N, S) /\ f \in S /\ N[f] = {} /\ t \in S /\ t # f
    BY <1>2, <1>3, <1>4
  <2> HIDE DEF S, N, f
  <2>2. \E r \in S : N[r] = {f}
    BY <2>1, SecondTouched
  <2> QED
    BY <2>2 DEF S, N, f
<1> QED
  BY <1>2, <1>5 DEF ReadyOnHost

\* For any hosts, faults and bounds, when one operator runs cap and more than one
\* release is kept: after a deploy that ends well every host has a release other than
\* the one deployed that deploy:rollback_release_path would take, the second of "ls -t".
THEOREM ReadyOnHostsSafe ==
  ASSUME TakeTurns, OneOperator
  PROVE  Spec => []ReadyOnHosts
<1>1. ReadyInv /\ [Next]_vars => ReadyInv'
  BY ReadyStep
<1> QED
  BY <1>1, InitReady, ReadyIsReady, PTL DEF Spec

\* On one server, as in every stage file of config/deploy, that release is the one a
\* rollback goes to.  On several the hosts may differ, once a deploy has failed
\* (RollbackReadyAgreed in SchemaProofs: when none has failed they agree).
THEOREM RollbackReadySafe ==
  ASSUME TakeTurns, OneOperator, \A h, g \in Hosts : h = g
  PROVE  Spec => []RollbackReady
<1>1. ReadyInv /\ [Next]_vars => ReadyInv'
  BY ReadyStep
<1>2. ReadyInv => RollbackReady
  <2> SUFFICES ASSUME ReadyInv, KeepReleases > 1, NEW o \in Operators,
                      Succeeded(o, {"deploy"})
               PROVE  \E r \in Ids : \A h \in Hosts :
                        r \in releases[h] /\ Cardinality(newer[h][r]) = 1
    BY DEF RollbackReady
  <2>1. ReadyOnHost(o, DbHost) /\ DbHost \in Hosts
    BY ReadyIsReady, HostAssumption DEF ReadyOnHosts
  <2>2. PICK r \in releases[DbHost] : newer[DbHost][r] = {runs[o].rel}
    BY <2>1 DEF ReadyOnHost
  <2>3. Cardinality(newer[DbHost][r]) = 1
    BY <2>2, FS_Singleton
  <2>4. r \in Ids
    BY <2>1 DEF ReadyInv, DoneInv, LiveInv, TypeInv, TypeOK
  <2> QED
    BY <2>1, <2>2, <2>3, <2>4
<1> QED
  BY <1>1, <1>2, InitReady, PTL DEF Spec


(***************************************************************************)
(* Updates.  An update hook changes the database of a release that keeps   *)
(* a dump.  The dump is missing where Drush did not reach the site, and    *)
(* then the update does not reach it either: code that does not boot never *)
(* does, and a database whose tables were dropped stays down, because the  *)
(* dump that should bring it back was unpacked by the run that dropped it, *)
(* and the next rollback looks for a packed one.                           *)
(***************************************************************************)
Due(run, s) == run.status = "running" /\ run.at = s /\ DbHost \in run.todo

DumpedExist == \A r \in Ids : dump[r].form # "none" => r \in releases[DbHost]

\* A deploy that has not come to its backup.
Undumped(run) ==
  /\ run.status = "running" /\ run.cmd = "deploy"
  /\ run.at \in {"stage", "build", "rsync", "copy"} \/ Due(run, "dump")
NotYetDumped == \A o \in Operators : Undumped(runs[o]) => dump[runs[o].rel].form = "none"

Restoring == \E o \in Operators : Running(o) /\ runs[o].at \in {"drop", "import"}
RestoreOrder == \A o \in Operators : /\ Due(runs[o], "drop") => db[1].up
                                     /\ Due(runs[o], "import") => ~db[1].up
NothingToRestore ==
  ~db[1].up \/ Restoring => \A r \in Newest(releases[DbHost]) : dump[r].form # "gz"

\* The tables were dropped, and no run goes on to import them.
Lost == ~db[1].up /\ ~Restoring
\* Release r keeps a dump, or no update hook of its code will ever run.
Held(r) == \/ dump[r].form # "none"
           \/ ~code[DbHost][r].boots
           \/ code[DbHost][r].src = 0
           \/ Lost
LinkedHeld == \A r \in linked[DbHost] : Held(r)
RunHeld ==
  \A o \in Operators : Did(runs[o], "dump", DbHost) =>
    runs[o].rel \in releases[DbHost] /\ Held(runs[o].rel)
DeployHeld ==
  \A o \in Operators :
    Did(runs[o], "dump", DbHost) /\ runs[o].cmd = "deploy" /\ dump[runs[o].rel].form # "none" =>
      dump[runs[o].rel].form = "gz" /\ dump[runs[o].rel].schema <= db[1].schema

UndoInv == /\ ServedInv /\ ReadyInv /\ LinkedExist
           /\ DumpedExist /\ NotYetDumped /\ RestoreOrder /\ NothingToRestore
           /\ LinkedHeld /\ RunHeld /\ DeployHeld

\* The types the steps below need.
LEMMA UndoTypes ==
  ASSUME UndoInv
  PROVE  /\ DoneInv /\ LiveInv /\ OkAtEnd
         /\ releases \in [Hosts -> SUBSET Ids] /\ linked \in [Hosts -> SUBSET Ids]
         /\ code \in [Hosts -> [Ids -> Tree]] /\ current \in [Hosts -> Ids]
         /\ dump \in [Ids -> Dump] /\ db \in [Sites -> Database]
         /\ runs \in [Operators -> Run] /\ DbHost \in Hosts /\ 1 \in Sites
BY HostAssumption
DEF UndoInv, ServedInv, DoneInv, LiveInv, TypeInv, TypeOK, Sites

\* The release of a run that copies is new to its host, and not dumped yet.
LEMMA PutsFresh ==
  ASSUME UndoInv, NEW o \in Operators, NEW h \in Hosts, Puts(o, h)
  PROVE  /\ runs[o].rel \in Ids /\ runs[o].rel \notin releases[h]
         /\ dump[runs[o].rel].form = "none"
         /\ releases' = [releases EXCEPT ![h] = @ \cup {runs[o].rel}]
         /\ dump' = dump /\ db' = db
         /\ \A g \in Hosts, r \in Ids :
              g # h \/ r # runs[o].rel => code'[g][r] = code[g][r]
<1>1. /\ Running(o) /\ runs[o].at = "copy" /\ h \in runs[o].todo
      /\ runs[o].cmd = "deploy" /\ runs[o].rel \in Ids
  <2>1. Running(o) /\ runs[o].at = "copy" /\ h \in runs[o].todo
    BY DEF Puts, Copy, CopyBreaks, At
  <2>2. runs[o].rel \in Ids
    BY <2>1 DEF UndoInv, ServedInv, DoneInv, LiveInv, TypeInv, RunsOk, RunOk, Running
  <2>3. runs[o].cmd = "deploy"
    <3>1. runs[o].cmd \in {"deploy", "rollback"} /\ runs[o].at \in DOMAIN After[runs[o].cmd]
      BY <2>1, UndoTypes, DidPlace DEF Running
    <3> QED
      BY <2>1, <3>1, DeployOnly
  <2> QED
    BY <2>1, <2>2, <2>3
<1>2. runs[o].rel \notin releases[h]
  BY <1>1 DEF UndoInv, ReadyInv, FreshName, BeforeCopy, Running
<1>3. dump[runs[o].rel].form = "none"
  BY <1>1 DEF UndoInv, NotYetDumped, Undumped, Running
<1>4. /\ releases' = [releases EXCEPT ![h] = @ \cup {runs[o].rel}]
      /\ dump' = dump /\ db' = db
      /\ \E tree : code' = [code EXCEPT ![h][runs[o].rel] = tree]
  BY DEF Puts, Copy, CopyBreaks, PutRelease, dataVars
<1>5. code \in [Hosts -> [Ids -> Tree]]
  BY UndoTypes
<1> QED
  BY <1>1, <1>2, <1>3, <1>4, <1>5

LEMMA DumpedExistStep ==
  ASSUME UndoInv, [Next]_vars
  PROVE  DumpedExist'
<1> SUFFICES ASSUME NEW r \in Ids, dump'[r].form # "none"
             PROVE  r \in releases'[DbHost]
  BY DEF DumpedExist
<1>0. /\ releases \in [Hosts -> SUBSET Ids] /\ dump \in [Ids -> Dump] /\ DbHost \in Hosts
      /\ dump[r].form # "none" => r \in releases[DbHost]
  BY UndoTypes DEF UndoInv, DumpedExist
<1>1. ASSUME NEW p \in Operators, DumpTaken(p) PROVE r \in releases'[DbHost]
  BY <1>0, <1>1 DEF DumpTaken, Bootstraps, SettingsWork
<1>2. ASSUME NEW p \in Operators, Gunzip(p) PROVE r \in releases'[DbHost]
  BY <1>0, <1>2 DEF Gunzip, Newest
<1>3. ASSUME NEW p \in Operators, NEW g \in Hosts, Deletes(p, g) PROVE r \in releases'[DbHost]
  <2>1. PICK gone : Remove(g, gone)
    BY <1>3 DEF Deletes, Cleanup, Archive
  <2>2. CASE g = DbHost
    BY <1>0, <2>1, <2>2 DEF Remove, NoDump
  <2>3. CASE g # DbHost
    BY <1>0, <2>1, <2>3 DEF Remove
  <2> QED
    BY <2>2, <2>3
<1>4. ASSUME NEW p \in Operators, NEW g \in Hosts, Puts(p, g) PROVE r \in releases'[DbHost]
  BY <1>0, <1>4, PutsFresh
<1> QED
  BY <1>0, <1>1, <1>2, <1>3, <1>4, WhoChangesDisk

LEMMA NotYetDumpedStep ==
  ASSUME UndoInv, TakeTurns, OneOperator, [Next]_vars
  PROVE  NotYetDumped'
<1> SUFFICES ASSUME NEW o \in Operators, Undumped(runs'[o])
             PROVE  dump'[runs'[o].rel].form = "none"
  BY DEF NotYetDumped, Undumped, Due
<1>0. /\ LiveInv /\ runs \in [Operators -> Run] /\ dump \in [Ids -> Dump] /\ DbHost \in Hosts
  BY UndoTypes
<1>1. CASE NewPath(o)
  <2>1. runs'[o].rel = lastId + 1 /\ lastId + 1 \notin releases[DbHost] /\ dump' = dump
    BY <1>0, <1>1, NamedHighest DEF NewPath, dataVars
  <2>2. lastId + 1 \in Ids
    BY <1>1, BoundAssumption DEF NewPath, LiveInv, TypeInv, TypeOK, UndoInv, ServedInv, DoneInv, Ids
  <2> QED
    BY <2>1, <2>2 DEF UndoInv, DumpedExist
<1>2. CASE ~NewPath(o)
  <2>1. runs'[o].at \in BeforeLink /\ runs'[o].cmd = "deploy" /\ Running(o)'
    BY DEF Undumped, Due, BeforeLink, Running
  <2>2. /\ Running(o) /\ runs[o].at \in BeforeLink /\ runs[o].cmd = "deploy"
        /\ runs'[o].rel = runs[o].rel
    BY <1>0, <1>2, <2>1, BeforeLinkBefore
  <2>3. Undumped(runs[o])
    <3>1. CASE runs' = runs
      BY <3>1
    <3>2. ASSUME NEW p \in Operators, Fresh(p) PROVE FALSE
      BY <1>0, <2>1, <3>2 DEF Fresh, OneOperator, BeforeLink, Running
    <3>3. ASSUME NEW p \in Operators, NEW t, NEW g, Acts(p, t, g) PROVE Undumped(runs[o])
      <4>1. Moved(o, g)
        BY <1>0, <3>3, ActsMove DEF OneOperator
      <4>2. /\ runs[o].status = "running" /\ runs[o].cmd = "deploy"
            /\ \/ runs'[o].at = runs[o].at /\ runs'[o].todo = runs[o].todo \ {g}
               \/ runs'[o].at = After["deploy"][runs[o].at]
        BY <1>0, <2>2, <4>1 DEF Moved, Running
      <4> QED
        BY <2>2, <4>2 DEF Undumped, Due, BeforeLink, After
    <3> QED
      BY <1>0, <3>1, <3>2, <3>3, RunSteps
  <2>4. dump[runs[o].rel].form = "none" /\ runs[o].rel \in Ids
    <3>1. runs[o].rel \in Ids
      BY <1>0, <2>2 DEF LiveInv, TypeInv, RunsOk, RunOk, Running, BeforeLink
    <3> QED
      BY <2>3, <3>1 DEF UndoInv, NotYetDumped
  <2>5. ASSUME NEW p \in Operators, DumpTaken(p) PROVE FALSE
    <3>1. Acts(o, "dump", DbHost)
      BY <2>5 DEF Acts, OneOperator
    <3>2. runs[o].at = "dump" /\ Moved(o, DbHost)
      BY <1>0, <3>1, ActsMove
    <3>3. \/ runs'[o].at = "dump" /\ runs'[o].todo = runs[o].todo \ {DbHost}
          \/ runs'[o].at = "aliases"
      BY <1>0, <2>2, <3>2 DEF Moved, After
    <3> QED
      BY <3>3 DEF Undumped, Due
  <2>6. ASSUME NEW p \in Operators, Gunzip(p) PROVE FALSE
    BY <2>2, <2>6 DEF Gunzip, At, OneOperator, BeforeLink
  <2>7. ASSUME NEW p \in Operators, NEW g \in Hosts, Deletes(p, g) PROVE FALSE
    BY <2>2, <2>7 DEF Deletes, Cleanup, Archive, At, OneOperator, BeforeLink
  <2> QED
    BY <2>2, <2>4, <2>5, <2>6, <2>7, WhoChangesDisk
<1> QED
  BY <1>1, <1>2


\* Where a run that is to drop or import the tables comes from.
LEMMA DueBefore ==
  ASSUME UndoInv, TakeTurns, OneOperator, [Next]_vars, NEW o \in Operators,
         NEW s \in {"drop", "import"}, Due(runs'[o], s)
  PROVE  \/ Due(runs[o], s) /\ ~Acts(o, s, DbHost)
         \/ s = "drop" /\ Gunzip(o)
         \/ s = "import" /\ DropTables(o)
<1>0. LiveInv /\ runs \in [Operators -> Run]
  BY UndoTypes
<1>1. ~Acts(o, s, DbHost)
  <2> SUFFICES ASSUME Acts(o, s, DbHost) PROVE FALSE
    OBVIOUS
  <2>1. s = runs[o].at /\ Moved(o, DbHost)
    BY <1>0, ActsMove
  <2>2. /\ runs[o].cmd \in {"deploy", "rollback"} /\ runs[o].at \in DOMAIN After[runs[o].cmd]
        /\ \/ runs'[o].todo = runs[o].todo \ {DbHost}
           \/ runs'[o].at = After[runs[o].cmd][runs[o].at]
    BY <1>0, <2>1 DEF Moved
  <2>3. After[runs[o].cmd][runs[o].at] # s
    BY <2>1, <2>2 DEF After
  <2> QED
    BY <2>2, <2>3 DEF Due
<1>2. CASE runs' = runs
  BY <1>1, <1>2
<1>3. ASSUME NEW p \in Operators, Fresh(p) PROVE FALSE
  BY <1>0, <1>3 DEF Fresh, OneOperator, Due
<1>4. ASSUME NEW p \in Operators, NEW t, NEW g, Acts(p, t, g)
      PROVE  \/ Due(runs[o], s)
             \/ s = "drop" /\ Gunzip(o)
             \/ s = "import" /\ DropTables(o)
  <2>1. p = o /\ t = runs[o].at /\ Moved(o, g)
    BY <1>0, <1>4, ActsMove DEF OneOperator
  <2>2. /\ Running(o) /\ runs[o].cmd \in {"deploy", "rollback"}
        /\ runs[o].at \in DOMAIN After[runs[o].cmd]
        /\ \/ runs'[o].at = runs[o].at /\ runs'[o].todo = runs[o].todo \ {g}
           \/ runs'[o].at = After[runs[o].cmd][runs[o].at]
    BY <1>0, <2>1 DEF Moved
  <2>3. CASE runs'[o].at = runs[o].at /\ runs'[o].todo = runs[o].todo \ {g}
    BY <2>2, <2>3 DEF Due, Running
  <2>4. CASE runs'[o].at = After[runs[o].cmd][runs[o].at]
    <3>1. (s = "drop" => t = "gunzip") /\ (s = "import" => t = "drop")
      BY <2>1, <2>2, <2>4 DEF Due, After
    <3> QED
      BY <1>4, <2>1, <3>1 DEF Acts
  <2> QED
    BY <2>2, <2>3, <2>4
<1> QED
  BY <1>0, <1>1, <1>2, <1>3, <1>4, RunSteps

\* The steps that drop and that import the tables, and those that leave them there.
LEMMA UpChanges ==
  ASSUME UndoInv, [Next]_vars
  PROVE  /\ \/ db'[1].up = db[1].up
            \/ \E o \in Operators : DropTables(o) \/ Import(o)
         /\ \/ db'[1].schema >= db[1].schema
            \/ \E o \in Operators : DropTables(o) \/ Import(o)
<1>0. /\ db \in [Sites -> Database] /\ 1 \in Sites
      /\ db[1].schema \in Nat
  <2>1. db[1] \in Database
    BY UndoTypes
  <2> QED
    BY <2>1, UndoTypes, BoundAssumption DEF Database, Revs
<1>1. ASSUME NEW p \in Operators, NEW s \in Sites, UpdateHook(p, s)
      PROVE  db'[1].up = db[1].up /\ db'[1].schema >= db[1].schema
  <2>1. CASE s = 1
    <3> PICK n : n = [db[1] EXCEPT !.schema = db[1].schema + 1]
      OBVIOUS
    <3>1. n.up = db[1].up /\ n.schema = db[1].schema + 1
      BY <1>0 DEF Database
    <3>2. db'[1] = n
      BY <1>0, <1>1, <2>1 DEF UpdateHook
    <3> QED
      BY <1>0, <3>1, <3>2
  <2>2. CASE s # 1
    BY <1>0, <1>1, <2>2 DEF UpdateHook
  <2> QED
    BY <2>1, <2>2
<1>2. ASSUME NEW s \in Sites, Edit(s)
      PROVE  db'[1].up = db[1].up /\ db'[1].schema = db[1].schema
  BY <1>0, <1>2 DEF Edit, Database
<1> QED
  BY <1>0, <1>1, <1>2, WhoChangesRest

LEMMA RestoreOrderStep ==
  ASSUME UndoInv, TakeTurns, OneOperator, [Next]_vars
  PROVE  RestoreOrder'
<1>0. db \in [Sites -> Database] /\ 1 \in Sites
  BY UndoTypes
<1>1. ASSUME NEW o \in Operators, Due(runs'[o], "drop") PROVE db'[1].up
  <2>1. CASE Due(runs[o], "drop") /\ ~Acts(o, "drop", DbHost)
    <3>1. db[1].up
      BY <2>1 DEF UndoInv, RestoreOrder
    <3>2. ASSUME NEW p \in Operators, DropTables(p) \/ Import(p) PROVE FALSE
      BY <2>1, <3>2 DEF Acts, OneOperator, Import, At, Due
    <3> QED
      BY <3>1, <3>2, UpChanges
  <2>2. CASE Gunzip(o)
    <3>1. \E last \in Newest(releases[DbHost]) : dump[last].form = "gz"
      BY <2>2 DEF Gunzip
    <3>2. db[1].up
      BY <3>1 DEF UndoInv, NothingToRestore
    <3> QED
      BY <2>2, <3>2 DEF Gunzip
  <2> QED
    BY <1>1, <2>1, <2>2, DueBefore
<1>2. ASSUME NEW o \in Operators, Due(runs'[o], "import") PROVE ~db'[1].up
  <2>1. CASE Due(runs[o], "import") /\ ~Acts(o, "import", DbHost)
    <3>1. ~db[1].up
      BY <2>1 DEF UndoInv, RestoreOrder
    <3>2. ASSUME NEW p \in Operators, DropTables(p) \/ Import(p) PROVE FALSE
      BY <2>1, <3>2 DEF Acts, OneOperator, DropTables, At, Due
    <3> QED
      BY <3>1, <3>2, UpChanges
  <2>2. CASE DropTables(o)
    BY <1>0, <2>2 DEF DropTables
  <2> QED
    BY <1>2, <2>1, <2>2, DueBefore
<1> QED
  BY <1>1, <1>2 DEF RestoreOrder, Due

\* A run that is restoring was restoring, or has unpacked the dump just now.
LEMMA RestoringBefore ==
  ASSUME UndoInv, TakeTurns, OneOperator, [Next]_vars, Restoring'
  PROVE  Restoring \/ \E o \in Operators : Gunzip(o)
<1>0. LiveInv /\ runs \in [Operators -> Run]
  BY UndoTypes
<1> PICK o \in Operators : Running(o)' /\ runs'[o].at \in {"drop", "import"}
  BY DEF Restoring, Running
<1>1. CASE runs' = runs
  BY <1>1 DEF Restoring, Running
<1>2. ASSUME NEW p \in Operators, Fresh(p) PROVE FALSE
  BY <1>0, <1>2 DEF Fresh, OneOperator, Running
<1>3. ASSUME NEW p \in Operators, NEW t, NEW g, Acts(p, t, g)
      PROVE  Restoring \/ Gunzip(o)
  <2>1. p = o /\ t = runs[o].at /\ Moved(o, g)
    BY <1>0, <1>3, ActsMove DEF OneOperator
  <2>2. /\ Running(o) /\ runs[o].cmd \in {"deploy", "rollback"}
        /\ runs[o].at \in DOMAIN After[runs[o].cmd]
        /\ \/ runs'[o].at = runs[o].at
           \/ runs'[o].at = After[runs[o].cmd][runs[o].at]
    BY <1>0, <2>1 DEF Moved
  <2>3. t \in {"gunzip", "drop", "import"}
    BY <2>1, <2>2 DEF After
  <2> QED
    BY <1>3, <2>1, <2>2, <2>3 DEF Acts, Restoring
<1> QED
  BY <1>0, <1>1, <1>2, <1>3, RunSteps

LEMMA NothingToRestoreStep ==
  ASSUME UndoInv, TakeTurns, OneOperator, [Next]_vars
  PROVE  NothingToRestore'
<1> SUFFICES ASSUME ~db'[1].up \/ Restoring',
                    NEW r \in Newest(releases'[DbHost])
             PROVE  dump'[r].form # "gz"
  BY DEF NothingToRestore
<1>0. /\ releases \in [Hosts -> SUBSET Ids] /\ dump \in [Ids -> Dump] /\ DbHost \in Hosts
      /\ DoneInv /\ OkAtEnd
  BY UndoTypes
<1>1. ASSUME NEW p \in Operators, Gunzip(p) PROVE dump'[r].form # "gz"
  <2>1. PICK last \in Newest(releases[DbHost]) : dump' = [dump EXCEPT ![last].form = "sql"]
    BY <1>1 DEF Gunzip
  <2>2. r \in Newest(releases[DbHost])
    BY <1>1 DEF Gunzip
  <2>3. r = last /\ r \in Ids
    <3>1. r \in Ids /\ last \in Ids /\ r <= last /\ last <= r
      BY <1>0, <2>1, <2>2 DEF Newest
    <3> QED
      BY <3>1 DEF Ids
  <2>4. dump'[r] = [dump[r] EXCEPT !.form = "sql"] /\ dump[r] \in Dump
    BY <1>0, <2>1, <2>3
  <2> QED
    BY <2>4 DEF Dump
<1>2. CASE ~\E p \in Operators : Gunzip(p)
  <2>1. ~db[1].up \/ Restoring
    <3>1. ASSUME NEW p \in Operators, DropTables(p) \/ Import(p) PROVE Restoring
      BY <3>1 DEF DropTables, Import, At, Restoring
    <3> QED
      BY <1>2, <3>1, UpChanges, RestoringBefore
  <2>2. \A s \in Newest(releases[DbHost]) : dump[s].form # "gz"
    BY <2>1 DEF UndoInv, NothingToRestore
  <2>3. ASSUME NEW p \in Operators, DumpTaken(p) PROVE FALSE
    <3>1. Running(p) /\ runs[p].at = "dump" /\ db[1].up
      BY <2>3 DEF DumpTaken, At, Bootstraps
    <3> QED
      BY <2>1, <3>1 DEF Restoring, OneOperator
  <2>4. ASSUME NEW p \in Operators, NEW g \in Hosts, Deletes(p, g) PROVE FALSE
    <3>1. Running(p) /\ runs[p].at \in {"cleanup", "archive"}
      BY <2>4 DEF Deletes, Cleanup, Archive, At
    <3>2. runs[p].status \in {"running", "ok"}
      BY <3>1 DEF Running
    <3>3. Did(runs[p], "updatedb", DbHost)
      BY <1>0, <3>1, <3>2, DidPlace, DoneAt DEF DoneInv
    <3> QED
      BY <2>1, <3>1, <3>3 DEF UndoInv, ServedInv, UpdateDone, Restoring, OneOperator
  <2>5. ASSUME NEW p \in Operators, NEW g \in Hosts, Puts(p, g) PROVE dump'[r].form # "gz"
    <3> DEFINE f == runs[p].rel
    <3>1. /\ dump' = dump /\ dump[f].form = "none"
          /\ releases' = [releases EXCEPT ![g] = @ \cup {f}]
      BY <2>5, PutsFresh
    <3>2. CASE r = f
      BY <3>1, <3>2
    <3>3. CASE r # f
      <4>1. r \in Newest(releases[DbHost])
        BY <1>0, <3>1, <3>3 DEF Newest
      <4> QED
        BY <2>2, <3>1, <4>1
    <3> QED
      BY <3>2, <3>3
  <2> QED
    BY <1>2, <2>2, <2>3, <2>4, <2>5, WhoChangesDisk
<1> QED
  BY <1>1, <1>2


\* What holds a release goes on holding it until it is deleted.
LEMMA HeldStays ==
  ASSUME UndoInv, TakeTurns, OneOperator, [Next]_vars,
         NEW r \in Ids, Held(r), r \in releases[DbHost], r \in releases'[DbHost]
  PROVE  Held(r)'
<1>0. /\ DoneInv /\ DbHost \in Hosts /\ dump \in [Ids -> Dump]
      /\ releases \in [Hosts -> SUBSET Ids] /\ code \in [Hosts -> [Ids -> Tree]]
  BY UndoTypes
<1>1. ASSUME NEW p \in Operators, NEW g \in Hosts, Deletes(p, g)
      PROVE  dump'[r] = dump[r] /\ code'[DbHost][r] = code[DbHost][r]
  <2>1. PICK gone : Remove(g, gone)
    BY <1>1 DEF Deletes, Cleanup, Archive
  <2>2. CASE g = DbHost
    <3>1. r \notin gone
      BY <1>0, <2>1, <2>2 DEF Remove
    <3> QED
      BY <1>0, <2>1, <3>1, RemoveKeeps
  <2>3. CASE g # DbHost
    BY <1>0, <2>1, <2>3 DEF Remove
  <2> QED
    BY <2>2, <2>3
<1>2. ASSUME NEW p \in Operators, NEW g \in Hosts, Puts(p, g)
      PROVE  dump' = dump /\ code'[DbHost][r] = code[DbHost][r]
  <2>1. g # DbHost \/ r # runs[p].rel
    BY <1>2, PutsFresh
  <2> QED
    BY <1>0, <1>2, <2>1, PutsFresh
<1>3. code'[DbHost][r] = code[DbHost][r]
  BY <1>1, <1>2, WhoChangesDisk
<1>4. dump[r].form # "none" => dump'[r].form # "none"
  <2>1. ASSUME NEW p \in Operators, DumpTaken(p), dump[r].form # "none"
        PROVE  dump'[r].form # "none"
    BY <1>0, <2>1 DEF DumpTaken
  <2>2. ASSUME NEW p \in Operators, Gunzip(p), dump[r].form # "none"
        PROVE  dump'[r].form # "none"
    <3>1. PICK last \in Newest(releases[DbHost]) : dump' = [dump EXCEPT ![last].form = "sql"]
      BY <2>2 DEF Gunzip
    <3>2. dump'[r] = dump[r] \/ dump'[r] = [dump[r] EXCEPT !.form = "sql"]
      BY <1>0, <3>1
    <3>3. dump[r] \in Dump
      BY <1>0
    <3> QED
      BY <2>2, <3>2, <3>3 DEF Dump
  <2> QED
    BY <1>1, <2>1, <2>2, WhoChangesDisk
<1>5. Lost => Lost'
  <2> SUFFICES ASSUME ~db[1].up, ~Restoring PROVE ~db'[1].up /\ ~Restoring'
    BY DEF Lost
  <2>1. ASSUME NEW p \in Operators, Gunzip(p) PROVE FALSE
    BY <2>1 DEF Gunzip, UndoInv, NothingToRestore
  <2>2. ASSUME NEW p \in Operators, DropTables(p) \/ Import(p) PROVE FALSE
    BY <2>2 DEF DropTables, Import, At, Restoring
  <2> QED
    BY <2>1, <2>2, UpChanges, RestoringBefore
<1> QED
  BY <1>3, <1>4, <1>5 DEF Held

LEMMA LinkedHeldStep ==
  ASSUME UndoInv, TakeTurns, OneOperator, [Next]_vars
  PROVE  LinkedHeld'
<1> SUFFICES ASSUME NEW r \in linked'[DbHost] PROVE Held(r)'
  BY DEF LinkedHeld
<1>0. /\ DoneInv /\ LiveInv /\ OkAtEnd /\ DbHost \in Hosts /\ linked \in [Hosts -> SUBSET Ids]
      /\ current \in [Hosts -> Ids] /\ releases \in [Hosts -> SUBSET Ids]
  BY UndoTypes
<1>1. ASSUME r \in linked[DbHost] PROVE Held(r) /\ r \in releases[DbHost]
  BY <1>0, <1>1 DEF UndoInv, LinkedHeld, LinkedExist
<1>2. ASSUME NEW p \in Operators, NEW g \in Hosts, Settings(p, g)
      PROVE  Held(r) /\ r \in releases[DbHost]
  <2>1. CASE r \in linked[DbHost]
    BY <1>1, <2>1
  <2>2. CASE r \notin linked[DbHost]
    <3>1. g = DbHost /\ r = current[DbHost]
      BY <1>0, <1>2, <2>2 DEF Settings
    <3>2. runs[p].status \in {"running", "ok"} /\ runs[p].at = "settings"
      BY <1>2 DEF Settings, At, Running
    <3>3. Did(runs[p], "link", DbHost) /\ Did(runs[p], "dump", DbHost)
      BY <1>0, <3>2, DidPlace, DoneAt DEF Published
    <3>4. r = runs[p].rel
      BY <1>0, <3>1, <3>3 DEF DoneInv, LinkDone
    <3> QED
      BY <1>0, <3>1, <3>3, <3>4 DEF UndoInv, RunHeld, LiveInv, LiveReleaseExists
  <2> QED
    BY <2>1, <2>2
<1>3. ASSUME NEW p \in Operators, NEW g \in Hosts, Deletes(p, g) PROVE r \in linked[DbHost]
  BY <1>0, <1>3 DEF Deletes, Cleanup, Archive, Remove
<1>4. Held(r) /\ r \in releases[DbHost]
  BY <1>1, <1>2, <1>3, WhoChangesDisk
<1>5. r \in releases'[DbHost]
  BY <1>0, LinkedExistStep DEF UndoInv, LinkedExist
<1> QED
  BY <1>0, <1>4, <1>5, HeldStays

\* A release stays while a run that has passed its backup goes on with it.
LEMMA RelStays ==
  ASSUME UndoInv, TakeTurns, OneOperator, [Next]_vars,
         NEW o \in Operators, Did(runs[o], "dump", DbHost), runs[o].rel \in releases[DbHost]
  PROVE  runs[o].rel \in releases'[DbHost]
<1>0. /\ DoneInv /\ DbHost \in Hosts /\ releases \in [Hosts -> SUBSET Ids]
  BY UndoTypes
<1>1. ASSUME NEW p \in Operators, NEW g \in Hosts, Deletes(p, g)
      PROVE  runs[o].rel \in releases'[DbHost]
  <2>1. PICK gone : Remove(g, gone) /\ runs[o].rel \notin gone
    BY <1>0, <1>1, DeletesKeep DEF OneOperator
  <2> QED
    BY <1>0, <2>1 DEF Remove
<1>2. ASSUME NEW p \in Operators, NEW g \in Hosts, Puts(p, g)
      PROVE  runs[o].rel \in releases'[DbHost]
  BY <1>0, <1>2, PutsFresh
<1> QED
  BY <1>1, <1>2, WhoChangesDisk


LEMMA RunHeldStep ==
  ASSUME UndoInv, OwnSettings, TakeTurns, OneOperator, [Next]_vars
  PROVE  RunHeld'
<1> SUFFICES ASSUME NEW o \in Operators, Did(runs'[o], "dump", DbHost),
                    NEW r, r = runs'[o].rel
             PROVE  r \in releases'[DbHost] /\ Held(r)'
  BY DEF RunHeld, Held, Lost, Restoring, Running
<1>0. /\ DoneInv /\ LiveInv /\ DbHost \in Hosts /\ 1 \in Sites
      /\ releases \in [Hosts -> SUBSET Ids] /\ dump \in [Ids -> Dump]
      /\ code \in [Hosts -> [Ids -> Tree]]
  BY UndoTypes
<1>a. DoneInv /\ LiveInv
  BY UndoTypes
<1>1. runs[o].rel = r /\ (Did(runs[o], "dump", DbHost) \/ Acts(o, "dump", DbHost))
  BY <1>a, DidBefore
<1>2. CASE Did(runs[o], "dump", DbHost)
  <2>1. r \in releases[DbHost] /\ Held(r) /\ r \in Ids
    BY <1>0, <1>1, <1>2 DEF UndoInv, RunHeld
  <2>2. r \in releases'[DbHost]
    BY <1>1, <1>2, <2>1, RelStays
  <2>3. Held(r)'
    BY <2>1, <2>2, HeldStays
  <2> QED
    BY <1>1, <2>2, <2>3
<1>3. CASE DumpTaken(o)
  <2>1. r \in releases'[DbHost] /\ r \in Ids
    BY <1>0, <1>1, <1>3 DEF DumpTaken, Bootstraps, SettingsWork
  <2>2. dump'[r].form # "none"
    BY <1>0, <1>1, <1>3, <2>1 DEF DumpTaken
  <2> QED
    BY <1>1, <2>1, <2>2 DEF Held
<1>4. CASE DumpSkipped(o)
  <2>1. r \in Ids
    <3>1. RunOk(runs[o]) /\ runs[o].status = "running" /\ runs[o].at = "dump"
      BY <1>0, <1>4 DEF DumpSkipped, At, Running, LiveInv, TypeInv, RunsOk
    <3> QED
      BY <1>1, <3>1 DEF RunOk
  <2>2. r \in releases[DbHost]
    BY <1>1, <1>4, <2>1 DEF DumpSkipped, UndoInv, DumpedExist
  <2>3. Held(r)
    <3> SUFFICES ASSUME dump[r].form = "none", code[DbHost][r].boots,
                        code[DbHost][r].src # 0, ~Lost
                 PROVE  FALSE
      BY DEF Held
    <3>1. ~Bootstraps(r)
      BY <1>1, <1>4 DEF DumpSkipped
    <3>2. ~Restoring
      BY <1>4 DEF DumpSkipped, At, Restoring, OneOperator
    <3>3. db[1].up
      BY <3>2 DEF Lost
    <3>4. ~SettingsWork(DbHost, r)
      BY <3>1, <3>3 DEF Bootstraps
    <3>5. code[DbHost][r].src \in Revs
      BY <1>0, <2>1 DEF Tree
    <3>6. r \in linked[DbHost]
      BY <2>2, <3>4, <3>5 DEF SettingsWork, OwnSettings
    <3> QED
      BY <2>2, <3>6 DEF UndoInv, LinkedHeld, Held
  <2>4. r \in releases'[DbHost] /\ Held(r)'
    <3>1. releases' = releases
      BY <1>4 DEF DumpSkipped, diskVars
    <3> QED
      BY <2>1, <2>2, <2>3, <3>1, HeldStays
  <2> QED
    BY <1>1, <2>4
<1> QED
  BY <1>1, <1>2, <1>3, <1>4 DEF Acts

LEMMA DeployHeldStep ==
  ASSUME UndoInv, TakeTurns, OneOperator, [Next]_vars
  PROVE  DeployHeld'
<1> SUFFICES ASSUME NEW o \in Operators, Did(runs'[o], "dump", DbHost),
                    runs'[o].cmd = "deploy", dump'[runs'[o].rel].form # "none"
             PROVE  /\ dump'[runs'[o].rel].form = "gz"
                    /\ dump'[runs'[o].rel].schema <= db'[1].schema
  BY DEF DeployHeld
<1>0. /\ DoneInv /\ LiveInv /\ OkAtEnd /\ DbHost \in Hosts /\ 1 \in Sites
      /\ dump \in [Ids -> Dump] /\ db \in [Sites -> Database]
  BY UndoTypes
<1> DEFINE r == runs[o].rel
<1>1. /\ runs'[o].rel = r /\ runs[o].cmd = "deploy"
      /\ Did(runs[o], "dump", DbHost) \/ Acts(o, "dump", DbHost)
  BY <1>0, DidBefore
<1>2. CASE Did(runs[o], "dump", DbHost)
  <2>1. r \in Ids
    BY <1>0, <1>2, RelKnown
  <2>2. Running(o) => runs[o].at \in DOMAIN After["deploy"]
    BY <1>0, <1>1, DidPlace DEF Running
  <2>3. ASSUME NEW p \in Operators, Gunzip(p) \/ DropTables(p) \/ Import(p) PROVE FALSE
    <3>1. runs[o].at \in {"gunzip", "drop", "import"} /\ Running(o)
      BY <2>3 DEF Gunzip, DropTables, Import, At, OneOperator
    <3> QED
      BY <2>2, <3>1 DEF After
  <2>4. ASSUME NEW p \in Operators, DumpTaken(p) PROVE FALSE
    BY <1>2, <2>4, OnePlace DEF DumpTaken, At
  <2>5. ASSUME NEW p \in Operators, NEW g \in Hosts, Deletes(p, g) PROVE dump'[r] = dump[r]
    <3>1. PICK gone : Remove(g, gone) /\ r \notin gone
      BY <1>0, <2>5, DeletesKeep DEF OneOperator
    <3> QED
      BY <1>0, <2>1, <3>1, RemoveKeeps
  <2>6. dump'[r] = dump[r]
    BY <2>3, <2>4, <2>5, WhoChangesDisk
  <2>7. db'[1].schema >= db[1].schema
    BY <2>3, UpChanges
  <2>8. dump[r].form = "gz" /\ dump[r].schema <= db[1].schema
    BY <1>1, <1>2, <2>6 DEF UndoInv, DeployHeld
  <2>9. dump[r].schema \in Nat /\ db[1].schema \in Nat
    BY <1>0, <2>1, BoundAssumption DEF Dump, Database, Revs
  <2>10. db'[1].schema \in Nat
    <3>1. TypeOK'
      BY <1>0, TypeStep DEF LiveInv, TypeInv
    <3> QED
      BY <1>0, <3>1, BoundAssumption DEF TypeOK, Database, Revs
  <2> QED
    BY <1>1, <2>6, <2>7, <2>8, <2>9, <2>10
<1>3. CASE DumpTaken(o)
  <2>1. r \in Ids
    BY <1>0, <1>3 DEF DumpTaken, Bootstraps, SettingsWork, LiveInv, TypeInv, TypeOK
  <2>2. dump'[r] = [form |-> "gz", schema |-> db[1].schema, edits |-> db[1].edits] /\ db' = db
    BY <1>0, <1>3, <2>1 DEF DumpTaken
  <2>3. db[1].schema \in Nat
    BY <1>0, BoundAssumption DEF Database, Revs
  <2> QED
    BY <1>1, <2>2, <2>3
<1>4. CASE DumpSkipped(o)
  <2>1. Undumped(runs[o]) /\ dump' = dump
    BY <1>1, <1>4 DEF DumpSkipped, At, Undumped, Due, Running, dataVars
  <2> QED
    BY <1>1, <2>1 DEF UndoInv, NotYetDumped
<1> QED
  BY <1>1, <1>2, <1>3, <1>4 DEF Acts

LEMMA InitUndo == Init => UndoInv
<1> SUFFICES ASSUME Init PROVE UndoInv
  OBVIOUS
<1>1. \A o \in Operators : runs[o].status = "idle"
  BY DEF Init, IdleRun
<1>2. ServedInv /\ ReadyInv
  BY DoneInit, InitReady
<1>3. LinkedExist /\ DumpedExist
  BY DEF Init, LinkedExist, DumpedExist, NoDump
<1>4. NotYetDumped /\ RestoreOrder /\ NothingToRestore /\ RunHeld /\ DeployHeld
  <2>1. db[1].up
    BY HostAssumption DEF Init, Sites
  <2> QED
    BY <1>1, <2>1
    DEF NotYetDumped, Undumped, RestoreOrder, Due, NothingToRestore, Restoring, Running,
        RunHeld, DeployHeld, Did
<1>5. LinkedHeld
  <2>1. linked[DbHost] \subseteq {1} /\ code[DbHost][1] = FirstTree
    BY HostAssumption, BoundAssumption DEF Init, Ids
  <2> QED
    BY <2>1 DEF LinkedHeld, Held, FirstTree
<1> QED
  BY <1>2, <1>3, <1>4, <1>5 DEF UndoInv

LEMMA UndoStep == UndoInv /\ OwnSettings /\ TakeTurns /\ OneOperator /\ [Next]_vars => UndoInv'
<1> SUFFICES ASSUME UndoInv, OwnSettings, TakeTurns, OneOperator, [Next]_vars PROVE UndoInv'
  OBVIOUS
<1>1. ServedInv' /\ ReadyInv' /\ LinkedExist'
  BY ServedStep, ReadyStep, UndoTypes, LinkedExistStep DEF UndoInv
<1> QED
  BY <1>1, DumpedExistStep, NotYetDumpedStep, RestoreOrderStep, NothingToRestoreStep,
     LinkedHeldStep, RunHeldStep, DeployHeldStep DEF UndoInv

\* The step that UpdatesCanBeUndone speaks of is an update hook of the first site.
LEMMA OnlyHooksRaise ==
  ASSUME UndoInv, [Next]_vars, db[1].up, db'[1].up, db'[1].schema > db[1].schema
  PROVE  \E o \in Operators : UpdateHook(o, 1)
<1>0. db \in [Sites -> Database] /\ 1 \in Sites /\ db[1].schema \in Nat
  <2>1. db[1] \in Database
    BY UndoTypes
  <2> QED
    BY <2>1, UndoTypes, BoundAssumption DEF Database, Revs
<1>1. db' # db
  BY <1>0
<1>2. ASSUME NEW o \in Operators, DropTables(o) PROVE FALSE
  BY <1>0, <1>2 DEF DropTables
<1>3. ASSUME NEW o \in Operators, Import(o) PROVE FALSE
  BY <1>3 DEF Import, At, Running, Due, UndoInv, RestoreOrder
<1>4. ASSUME NEW s \in Sites, Edit(s) PROVE FALSE
  <2>1. db'[1].schema = db[1].schema
    BY <1>0, <1>4 DEF Edit, Database
  <2> QED
    BY <1>0, <2>1
<1>5. ASSUME NEW o \in Operators, NEW s \in Sites, UpdateHook(o, s) PROVE s = 1
  <2> SUFFICES ASSUME s # 1 PROVE FALSE
    OBVIOUS
  <2>1. db'[1] = db[1]
    BY <1>0, <1>5 DEF UpdateHook
  <2> QED
    BY <1>0, <2>1
<1> QED
  BY <1>1, <1>2, <1>3, <1>4, <1>5, WhoChangesRest

LEMMA HooksCanBeUndone ==
  ASSUME UndoInv, TakeTurns, OneOperator, NEW o \in Operators, UpdateHook(o, 1)
  PROVE  \E r \in Ids : /\ \A h \in Hosts : current[h] = r
                        /\ dump[r].form # "none"
                        /\ \A p \in Operators : Running(p) /\ runs[p].cmd = "deploy" =>
                             /\ r \in Newest(releases[DbHost])
                             /\ dump[r].form = "gz" /\ dump[r].schema <= db[1].schema
<1>0. /\ DoneInv /\ LiveInv /\ OkAtEnd /\ DbHost \in Hosts /\ 1 \in Sites
      /\ db \in [Sites -> Database] /\ releases \in [Hosts -> SUBSET Ids]
  BY UndoTypes
<1> DEFINE r == runs[o].rel
<1>1. /\ Running(o) /\ runs[o].at = "updatedb" /\ r \in releases[DbHost]
      /\ Bootstraps(current[DbHost]) /\ 1 \in Behind
  BY DEF UpdateHook, CanUpdate, At
<1>2. (\A h \in Hosts : Did(runs[o], "link", h)) /\ Did(runs[o], "dump", DbHost)
  BY <1>0, <1>1, DidPlace, DoneAt DEF Running, Published
<1>3. r \in Ids /\ \A h \in Hosts : current[h] = r
  BY <1>0, <1>1, <1>2 DEF DoneInv, LinkDone
<1>4. dump[r].form # "none"
  <2>1. Held(r)
    BY <1>2 DEF UndoInv, RunHeld
  <2>2. db[1].up /\ code[DbHost][r].boots
    BY <1>0, <1>1, <1>3 DEF Bootstraps, SettingsWork
  <2>3. code[DbHost][r].src # 0
    <3>1. db[1].schema < code[DbHost][r].src /\ db[1].schema \in Nat
      BY <1>0, <1>1, <1>3, BoundAssumption DEF Behind, Database, Revs
    <3> QED
      BY <3>1
  <2> QED
    BY <2>1, <2>2, <2>3 DEF Held, Lost
<1>5. ASSUME NEW p \in Operators, Running(p), runs[p].cmd = "deploy"
      PROVE  /\ r \in Newest(releases[DbHost])
             /\ dump[r].form = "gz" /\ dump[r].schema <= db[1].schema
  <2>1. p = o
    BY DEF OneOperator
  <2>2. dump[r].form = "gz" /\ dump[r].schema <= db[1].schema
    BY <1>2, <1>4, <1>5, <2>1 DEF UndoInv, DeployHeld
  <2>3. r = lastId
    BY <1>0, <1>1, <1>5, <2>1 DEF LiveInv, RunsLive, RunLive
  <2>4. \A s \in releases[DbHost] : s <= r
    BY <1>0, <2>3 DEF LiveInv, NamesGiven
  <2> QED
    BY <1>1, <2>2, <2>4 DEF Newest
<1> QED
  BY <1>3, <1>4, <1>5

\* For any hosts, faults and bounds, when one operator runs cap and every revision's
\* own settings.php reaches the database: drush updatedb changes the database of
\* the first site only when every host runs the same release and that release has a
\* dump, and in a deploy it is the one drupal:revert_database would restore, taken
\* before the change.
THEOREM UpdatesCanBeUndoneSafe ==
  ASSUME TakeTurns, OneOperator, OwnSettings
  PROVE  Spec => UpdatesCanBeUndone
<1>1. UndoInv /\ [Next]_vars => UndoInv'
  BY UndoStep
<1>2. Spec => []UndoInv
  BY <1>1, InitUndo, PTL DEF Spec
<1>3. UndoInv /\ [Next]_vars =>
        [db[1].up /\ db'[1].up /\ db'[1].schema > db[1].schema =>
           \E r \in Ids : /\ \A h \in Hosts : current[h] = r
                          /\ dump[r].form # "none"
                          /\ \A o \in Operators : Running(o) /\ runs[o].cmd = "deploy" =>
                               /\ r \in Newest(releases[DbHost])
                               /\ dump[r].form = "gz" /\ dump[r].schema <= db[1].schema]_vars
  BY OnlyHooksRaise, HooksCanBeUndone
<1> QED
  BY <1>2, <1>3, PTL DEF Spec, UpdatesCanBeUndone
===============================================================================
