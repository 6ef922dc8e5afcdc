-------------------------- MODULE DeploymentProofs --------------------------
(***************************************************************************)
(* What holds of Deployment for every number of hosts, releases, commits,  *)
(* sites and operators: its types, and, as long as operators take turns    *)
(* and nobody runs deploy:cleanup on its own, that the release being       *)
(* served is never deleted and that no content is lost which was there     *)
(* when the newest release was named.                                      *)
(***************************************************************************)
EXTENDS Deployment, FiniteSetTheorems, TLAPS

\* A running command is at a step of its plan, knows its release once it has
\* named or picked one, and the release it restores once it has unpacked its dump.
RunOk(run) ==
  run.status = "running" =>
    /\ run.at \in DOMAIN After[run.cmd]
    /\ run.at \notin {"newpath", "pick", "cleanup"} => run.rel \in Ids
    /\ run.at \in {"drop", "import"} => run.last \in Ids
RunsOk == \A o \in Operators : RunOk(runs[o])

\* Every plan leads from a step to a step of the same plan, or to its end.
LEMMA AfterInPlan ==
  ASSUME NEW c \in CommandNames, NEW s \in DOMAIN After[c]
  PROVE  After[c][s] \in (DOMAIN After[c]) \cup {"end"}
<1>1. CASE c = "deploy"
  BY <1>1 DEF After
<1>2. CASE c = "rollback"
  BY <1>2 DEF After
<1>3. CASE c = "cleanup"
  BY <1>3 DEF After
<1> QED
  BY <1>1, <1>2, <1>3 DEF CommandNames

\* The steps of the plans are steps.
LEMMA PlanSteps ==
  ASSUME NEW c \in CommandNames
  PROVE  /\ DOMAIN After[c] \subseteq StepNames
         /\ First[c] \in DOMAIN After[c]
BY DEF CommandNames, After, First, StepNames

\* The order of the plans, as far as the knowledge of a run depends on it.
LEMMA PlanOrder ==
  ASSUME NEW c \in CommandNames, NEW s \in DOMAIN After[c], After[c][s] # "end"
  PROVE  /\ s # "cleanup"
         /\ After[c][s] \notin {"newpath", "pick"}
         /\ After[c][s] \in {"drop", "import"} => s \in {"gunzip", "drop"}
<1>1. CASE c = "deploy"
  BY <1>1 DEF After
<1>2. CASE c = "rollback"
  BY <1>2 DEF After
<1>3. CASE c = "cleanup"
  BY <1>3 DEF After
<1> QED
  BY <1>1, <1>2, <1>3 DEF CommandNames

\* The hosts of a step are servers or the operator's machine.
LEMMA HostsOfType ==
  ASSUME NEW s
  PROVE  HostsOf(s) \subseteq Hosts \cup {Deployer}
BY HostAssumption DEF HostsOf

(***************************************************************************)
(* Type correctness.  TypeOK alone is not inductive: a run that is not on  *)
(* its plan has no next step, and one without a release copies to none.    *)
(***************************************************************************)
TypeInv == TypeOK /\ RunsOk

LEMMA DoneType ==
  ASSUME NEW run \in Run, NEW h, run.status = "running", RunOk(run)
  PROVE  /\ Done(run, h) \in Run
         /\ Done(run, h).cmd = run.cmd
         /\ Done(run, h).rel = run.rel
         /\ Done(run, h).last = run.last
         /\ Done(run, h).status = "running" =>
              \/ Done(run, h).at = run.at
              \/ /\ Done(run, h).at = After[run.cmd][run.at]
                 /\ Done(run, h).at \in DOMAIN After[run.cmd]
                 /\ Done(run, h).at # "end"
<1> DEFINE left == run.todo \ {h}
           next == After[run.cmd][run.at]
<1>1. /\ run.cmd \in CommandNames /\ left \in SUBSET (Hosts \cup {Deployer})
      /\ run.at \in DOMAIN After[run.cmd]
  BY DEF Run, RunOk
<1>2. next \in (DOMAIN After[run.cmd]) \cup {"end"} /\ next \in StepNames \cup {"end"}
  BY <1>1, AfterInPlan, PlanSteps
<1>3. HostsOf(next) \in SUBSET (Hosts \cup {Deployer})
  BY HostsOfType
<1>4. CASE left # {}
  <2>1. Done(run, h) = [run EXCEPT !.todo = left]
    BY <1>4 DEF Done
  <2> QED
    BY <2>1, <1>1 DEF Run
<1>5. CASE left = {}
  <2> DEFINE st == IF next = "end" THEN "ok" ELSE "running"
  <2>1. Done(run, h) = [run EXCEPT !.at = next, !.todo = HostsOf(next), !.status = st]
    BY <1>5 DEF Done
  <2>2. st \in {"ok", "running"}
        /\ (st = "running" => next \in DOMAIN After[run.cmd] /\ next # "end")
    BY <1>2
  <2> HIDE DEF st, left
  <2>3. Done(run, h) \in Run
    BY <2>1, <2>2, <1>2, <1>3 DEF Run
  <2> QED
    BY <2>1, <2>2, <2>3 DEF Run
<1> QED
  BY <1>4, <1>5

\* A run that stays as it is or moves on keeps RunOk, if it knows what the steps
\* it leaves were to find out.
LEMMA DoneOk ==
  ASSUME NEW run \in Run, NEW h, run.status = "running", RunOk(run),
         NEW r \in Ids \cup {NoId}, NEW l \in Ids \cup {NoId},
         run.at \in {"newpath", "pick"} => r \in Ids,
         run.at \notin {"newpath", "pick"} => r = run.rel,
         run.at = "gunzip" => l \in Ids,
         run.at # "gunzip" => l = run.last
  PROVE  /\ [Done(run, h) EXCEPT !.rel = r, !.last = l] \in Run
         /\ RunOk([Done(run, h) EXCEPT !.rel = r, !.last = l])
<1> DEFINE old == Done(run, h)
           new == [old EXCEPT !.rel = r, !.last = l]
<1> SUFFICES new \in Run /\ RunOk(new)
  OBVIOUS
<1>1. /\ old \in Run /\ old.cmd = run.cmd
      /\ old.status = "running" =>
           \/ old.at = run.at
           \/ /\ old.at = After[run.cmd][run.at]
              /\ old.at \in DOMAIN After[run.cmd]
              /\ old.at # "end"
  BY DoneType
<1> HIDE DEF old
<1>2. /\ new \in Run /\ new.cmd = run.cmd /\ new.at = old.at
      /\ new.rel = r /\ new.last = l /\ new.status = old.status
  BY <1>1 DEF Run
<1>3. run.cmd \in CommandNames /\ run.at \in DOMAIN After[run.cmd]
  BY DEF Run, RunOk
<1> HIDE DEF new
<1>4. CASE old.at = run.at
  BY <1>1, <1>2, <1>3, <1>4 DEF RunOk
<1>5. CASE /\ old.at = After[run.cmd][run.at]
           /\ old.at \in DOMAIN After[run.cmd]
           /\ old.at # "end"
  <2>1. /\ run.at # "cleanup"
        /\ old.at \notin {"newpath", "pick"}
        /\ old.at \in {"drop", "import"} => run.at \in {"gunzip", "drop"}
    BY <1>3, <1>5, PlanOrder
  <2> QED
    BY <2>1, <1>2, <1>5 DEF RunOk
<1>6. CASE old.status # "running"
  BY <1>2, <1>6 DEF RunOk
<1> QED
  BY <1>1, <1>2, <1>4, <1>5, <1>6

\* The three ways a step leaves the run it belongs to.
LEMMA AdvanceType ==
  ASSUME TypeInv, NEW o \in Operators, NEW h, Running(o), Advance(o, h),
         runs[o].at \notin {"newpath", "pick", "gunzip"}
  PROVE  runs' \in [Operators -> Run] /\ RunsOk'
<1> DEFINE run == runs[o]
           new == [Done(run, h) EXCEPT !.rel = run.rel, !.last = run.last]
<1>1. run \in Run /\ RunOk(run) /\ run.status = "running"
  BY DEF TypeInv, TypeOK, RunsOk, Running
<1>2. run.rel \in Ids \cup {NoId} /\ run.last \in Ids \cup {NoId}
  BY <1>1 DEF Run
<1>3. new \in Run /\ RunOk(new)
  BY <1>1, <1>2, DoneOk
<1>4. Done(run, h) \in Run /\ Done(run, h).rel = run.rel /\ Done(run, h).last = run.last
  BY <1>1, DoneType
<1>5. Done(run, h) = new
  BY <1>4 DEF Run
<1>6. Done(run, h) \in Run /\ RunOk(Done(run, h))
  BY <1>3, <1>5
<1> QED
  BY <1>6 DEF Advance, TypeInv, TypeOK, RunsOk

LEMMA AdvanceToType ==
  ASSUME TypeInv, NEW o \in Operators, NEW h, Running(o), NEW r \in Ids,
         AdvanceTo(o, h, r), runs[o].at \in {"newpath", "pick"}
  PROVE  runs' \in [Operators -> Run] /\ RunsOk'
<1> DEFINE run == runs[o]
           new == [Done(run, h) EXCEPT !.rel = r, !.last = run.last]
<1>1. run \in Run /\ RunOk(run) /\ run.status = "running"
  BY DEF TypeInv, TypeOK, RunsOk, Running
<1>2. run.last \in Ids \cup {NoId}
  BY <1>1 DEF Run
<1>3. new \in Run /\ RunOk(new)
  BY <1>1, <1>2, DoneOk
<1>4. Done(run, h) \in Run /\ Done(run, h).last = run.last
  BY <1>1, DoneType
<1>5. [Done(run, h) EXCEPT !.rel = r] = new
  BY <1>4 DEF Run
<1>6. [Done(run, h) EXCEPT !.rel = r] \in Run /\ RunOk([Done(run, h) EXCEPT !.rel = r])
  BY <1>3, <1>5
<1> QED
  BY <1>6 DEF AdvanceTo, TypeInv, TypeOK, RunsOk

LEMMA AdvanceLastType ==
  ASSUME TypeInv, NEW o \in Operators, NEW h, Running(o), NEW l \in Ids,
         runs' = [runs EXCEPT ![o] = [Done(@, h) EXCEPT !.last = l]],
         runs[o].at = "gunzip"
  PROVE  runs' \in [Operators -> Run] /\ RunsOk'
<1> DEFINE run == runs[o]
           new == [Done(run, h) EXCEPT !.rel = run.rel, !.last = l]
<1>1. run \in Run /\ RunOk(run) /\ run.status = "running"
  BY DEF TypeInv, TypeOK, RunsOk, Running
<1>2. run.rel \in Ids \cup {NoId}
  BY <1>1 DEF Run
<1>3. new \in Run /\ RunOk(new)
  BY <1>1, <1>2, DoneOk
<1>4. Done(run, h) \in Run /\ Done(run, h).rel = run.rel
  BY <1>1, DoneType
<1>5. [Done(run, h) EXCEPT !.last = l] = new
  BY <1>4 DEF Run
<1>6. [Done(run, h) EXCEPT !.last = l] \in Run /\ RunOk([Done(run, h) EXCEPT !.last = l])
  BY <1>3, <1>5
<1> QED
  BY <1>6 DEF TypeInv, TypeOK, RunsOk

LEMMA StopType ==
  ASSUME TypeInv, NEW o \in Operators, Stop(o)
  PROVE  runs' \in [Operators -> Run] /\ RunsOk'
<1>1. /\ [IdleRun EXCEPT !.status = "failed"] \in Run
      /\ RunOk([IdleRun EXCEPT !.status = "failed"])
  BY DEF IdleRun, Run, RunOk, CommandNames, StepNames
<1> QED
  BY <1>1 DEF Stop, TypeInv, TypeOK, RunsOk

LEMMA InitType == Init => TypeInv
<1> SUFFICES ASSUME Init PROVE TypeInv
  OBVIOUS
<1>1. 1 \in Ids /\ 0 \in Revs /\ 0 \in 0..MaxEdits
  BY BoundAssumption DEF Ids, Revs
<1>2. FirstTree \in Tree /\ NoTree \in Tree /\ NoDump \in Dump
  BY <1>1 DEF FirstTree, NoTree, NoDump, Tree, Dump
<1>3. IdleRun \in Run /\ RunOk(IdleRun)
  BY DEF IdleRun, Run, RunOk, CommandNames
<1>4. TypeOK
  BY <1>1, <1>2, <1>3 DEF Init, TypeOK, Database
<1> QED
  BY <1>3, <1>4 DEF TypeInv, RunsOk, Init

(***************************************************************************)
(* The release directories.                                                *)
(***************************************************************************)
LEMMA PutReleaseType ==
  ASSUME TypeInv, NEW h \in Hosts, NEW r \in Ids, NEW tree \in Tree,
         PutRelease(h, r, tree)
  PROVE  /\ releases' \in [Hosts -> SUBSET Ids]
         /\ code' \in [Hosts -> [Ids -> Tree]]
         /\ newer' \in [Hosts -> [Ids -> SUBSET Ids]]
BY DEF TypeInv, TypeOK, PutRelease, Touch

LEMMA RemoveType ==
  ASSUME TypeInv, NEW h \in Hosts, NEW gone, Remove(h, gone)
  PROVE  /\ releases' \in [Hosts -> SUBSET Ids]
         /\ code' \in [Hosts -> [Ids -> Tree]]
         /\ newer' \in [Hosts -> [Ids -> SUBSET Ids]]
         /\ linked' \in [Hosts -> SUBSET Ids]
         /\ dump' \in [Ids -> Dump]
<1>1. NoTree \in Tree /\ NoDump \in Dump
  BY BoundAssumption DEF NoTree, NoDump, Tree, Dump, Revs
<1> QED
  BY <1>1 DEF TypeInv, TypeOK, Remove

LEMMA TornType == \A tree \in Torn : tree \in Tree
<1>1. 0 \in Revs /\ NoTree \in Tree
  BY BoundAssumption DEF NoTree, Tree, Revs
<1>2. [NoTree EXCEPT !.boots = TRUE] \in Tree
  BY <1>1 DEF Tree
<1> QED
  BY <1>1, <1>2 DEF Torn

(***************************************************************************)
(* The steps that build and push a release.                                *)
(***************************************************************************)
LEMMA BuildSteps ==
  ASSUME TypeInv, NEW o \in Operators,
         \/ LocalStep(o)
         \/ \E h \in Hosts : Rsync(o, h) \/ Copy(o, h) \/ CopyBreaks(o, h)
  PROVE  TypeInv'
<1>1. CASE NewPath(o)
  <2>1. lastId + 1 \in Ids
    BY <1>1, BoundAssumption DEF NewPath, TypeInv, TypeOK, Ids
  <2>2. db[1].edits \in 0..MaxEdits
    BY HostAssumption DEF TypeInv, TypeOK, Database, Sites
  <2>3. runs' \in [Operators -> Run] /\ RunsOk'
    BY <1>1, <2>1, AdvanceToType DEF NewPath, At
  <2> QED
    BY <1>1, <2>1, <2>2, <2>3
    DEF NewPath, TypeInv, TypeOK, diskVars, sourceVars, dataVars
<1>2. CASE Stage(o) \/ Build(o)
  <2>1. runs' \in [Operators -> Run] /\ RunsOk'
    BY <1>2, AdvanceType DEF Stage, Build, At
  <2>2. staged' \in Tree
    BY <1>2 DEF Stage, Build, TypeInv, TypeOK, Tree
  <2> QED
    BY <1>2, <2>1, <2>2
    DEF Stage, Build, TypeInv, TypeOK, diskVars, dataVars, nameVars
<1>3. ASSUME NEW h \in Hosts, Rsync(o, h) PROVE TypeInv'
  <2>1. runs' \in [Operators -> Run] /\ RunsOk'
    BY <1>3, AdvanceType DEF Rsync, At
  <2>2. cache' \in [Hosts -> Tree]
    BY <1>3, TornType DEF Rsync, TypeInv, TypeOK
  <2> QED
    BY <1>3, <2>1, <2>2 DEF Rsync, TypeInv, TypeOK, diskVars, dataVars, nameVars
<1>4. ASSUME NEW h \in Hosts, Copy(o, h) \/ CopyBreaks(o, h) PROVE TypeInv'
  <2>1. runs' \in [Operators -> Run] /\ RunsOk'
    BY <1>4, AdvanceType, StopType DEF Copy, CopyBreaks, At
  <2>2. PICK tree \in Tree : PutRelease(h, runs[o].rel, tree)
    BY <1>4, TornType DEF Copy, CopyBreaks, TypeInv, TypeOK
  <2>3. runs[o].rel \in Ids
    BY <1>4 DEF Copy, CopyBreaks, At, Running, TypeInv, RunsOk, RunOk
  <2>4. /\ releases' \in [Hosts -> SUBSET Ids]
        /\ code' \in [Hosts -> [Ids -> Tree]]
        /\ newer' \in [Hosts -> [Ids -> SUBSET Ids]]
    BY <2>2, <2>3, PutReleaseType
  <2> QED
    BY <1>4, <2>1, <2>4
    DEF Copy, CopyBreaks, TypeInv, TypeOK, sourceVars, dataVars, nameVars
<1> QED
  BY <1>1, <1>2, <1>3, <1>4 DEF LocalStep

(***************************************************************************)
(* The steps on the database.                                              *)
(***************************************************************************)
LEMMA DatabaseSteps ==
  ASSUME TypeInv, NEW o \in Operators, DbStep(o)
  PROVE  TypeInv'
<1>0. /\ 1 \in Sites /\ DbHost \in Hosts
      /\ 0 \in Revs /\ 0 \in 0..MaxEdits
  BY HostAssumption, BoundAssumption DEF Sites, Revs
<1>1. CASE DumpTaken(o)
  <2>1. runs' \in [Operators -> Run] /\ RunsOk'
    BY <1>1, AdvanceType DEF DumpTaken, At
  <2>2. [form |-> "gz", schema |-> db[1].schema, edits |-> db[1].edits] \in Dump
    BY <1>0 DEF TypeInv, TypeOK, Database, Dump
  <2>3. dump' \in [Ids -> Dump]
    BY <1>1, <2>2 DEF DumpTaken, TypeInv, TypeOK
  <2>4. newer' \in [Hosts -> [Ids -> SUBSET Ids]]
    <3>1. runs[o].rel \in Ids
      BY <1>0, <1>1 DEF DumpTaken, Bootstraps, SettingsWork, TypeInv, TypeOK
    <3> QED
      BY <1>0, <1>1, <3>1 DEF DumpTaken, Touch, TypeInv, TypeOK
  <2> QED
    BY <1>1, <2>1, <2>3, <2>4 DEF DumpTaken, TypeInv, TypeOK, sourceVars, nameVars
<1>2. CASE DumpSkipped(o) \/ UpdatesDone(o)
  <2>1. runs' \in [Operators -> Run] /\ RunsOk'
    BY <1>2, AdvanceType DEF DumpSkipped, UpdatesDone, CanUpdate, At
  <2> QED
    BY <1>2, <2>1
    DEF DumpSkipped, UpdatesDone, TypeInv, TypeOK, diskVars, sourceVars, dataVars, nameVars
<1>3. CASE Gunzip(o)
  <2>1. PICK last \in Newest(releases[DbHost]) :
          /\ dump' = [dump EXCEPT ![last].form = "sql"]
          /\ Touch(DbHost, last)
          /\ runs' = [runs EXCEPT ![o] = [Done(@, DbHost) EXCEPT !.last = last]]
    BY <1>3 DEF Gunzip
  <2>2. last \in Ids
    BY <1>0 DEF Newest, TypeInv, TypeOK
  <2>3. runs' \in [Operators -> Run] /\ RunsOk'
    BY <1>3, <2>1, <2>2, AdvanceLastType DEF Gunzip, At
  <2>4. dump' \in [Ids -> Dump]
    <3>1. dump[last] \in Dump
      BY <2>2 DEF TypeInv, TypeOK
    <3>2. [dump[last] EXCEPT !.form = "sql"] \in Dump
      BY <3>1 DEF Dump
    <3> QED
      BY <2>1, <3>2 DEF TypeInv, TypeOK
  <2>5. newer' \in [Hosts -> [Ids -> SUBSET Ids]]
    BY <1>0, <2>1, <2>2 DEF Touch, TypeInv, TypeOK
  <2> QED
    BY <1>3, <2>3, <2>4, <2>5 DEF Gunzip, TypeInv, TypeOK, sourceVars, nameVars
<1>4. CASE DropTables(o) \/ Import(o)
  <2>1. runs' \in [Operators -> Run] /\ RunsOk'
    BY <1>4, AdvanceType DEF DropTables, Import, At
  <2>2. runs[o].last \in Ids
    BY <1>4 DEF DropTables, Import, At, Running, TypeInv, RunsOk, RunOk
  <2>3. db' \in [Sites -> Database]
    <3>1. [up |-> FALSE, schema |-> 0, edits |-> 0] \in Database
      BY <1>0 DEF Database
    <3>2. [up |-> TRUE, schema |-> dump[runs[o].last].schema,
           edits |-> dump[runs[o].last].edits] \in Database
      BY <2>2 DEF TypeInv, TypeOK, Dump, Database
    <3> QED
      BY <1>4, <3>1, <3>2 DEF DropTables, Import, TypeInv, TypeOK
  <2> QED
    BY <1>4, <2>1, <2>3
    DEF DropTables, Import, TypeInv, TypeOK, diskVars, sourceVars, nameVars
<1>5. ASSUME NEW s \in Sites, UpdateHook(o, s) PROVE TypeInv'
  <2>1. db[s] \in Database /\ code[DbHost][current[DbHost]].src \in Revs
    BY <1>0 DEF TypeInv, TypeOK, Tree
  <2>2. db[s].schema + 1 \in Revs
    BY <1>5, <2>1, BoundAssumption DEF UpdateHook, Behind, Database, Revs
  <2>3. [db[s] EXCEPT !.schema = @ + 1] \in Database
    BY <2>1, <2>2 DEF Database
  <2>4. db' \in [Sites -> Database]
    BY <1>5, <2>3 DEF UpdateHook, TypeInv, TypeOK
  <2> QED
    BY <1>5, <2>4
    DEF UpdateHook, TypeInv, TypeOK, RunsOk, diskVars, sourceVars, nameVars
<1> QED
  BY <1>1, <1>2, <1>3, <1>4, <1>5 DEF DbStep

(***************************************************************************)
(* The steps that publish a release and those that delete releases.        *)
(***************************************************************************)
LEMMA PublishSteps ==
  ASSUME TypeInv, NEW o \in Operators, NEW h \in Hosts,
         \/ Aliases(o, h) \/ Link(o, h) \/ RemoveWeb(o, h) \/ LinkWeb(o, h)
         \/ Settings(o, h) \/ Ban(o, h) \/ Pick(o, h)
  PROVE  TypeInv'
<1>1. CASE Aliases(o, h)
  <2>1. runs' \in [Operators -> Run] /\ RunsOk'
    BY <1>1, AdvanceType DEF Aliases, At
  <2> QED
    BY <1>1, <2>1
    DEF Aliases, TypeInv, TypeOK, diskVars, sourceVars, dataVars, nameVars
<1>2. CASE Link(o, h)
  <2>1. runs' \in [Operators -> Run] /\ RunsOk'
    BY <1>2, AdvanceType DEF Link, At
  <2>2. runs[o].rel \in Ids
    BY <1>2 DEF Link, At, Running, TypeInv, RunsOk, RunOk
  <2> QED
    BY <1>2, <2>1, <2>2 DEF Link, TypeInv, TypeOK, sourceVars, dataVars, nameVars
<1>3. CASE RemoveWeb(o, h)
  BY <1>3 DEF RemoveWeb, TypeInv, TypeOK, RunsOk, sourceVars, dataVars, nameVars
<1>4. CASE LinkWeb(o, h)
  <2>1. runs' \in [Operators -> Run] /\ RunsOk'
    BY <1>4, AdvanceType DEF LinkWeb, At
  <2> QED
    BY <1>4, <2>1 DEF LinkWeb, TypeInv, TypeOK, sourceVars, dataVars, nameVars
<1>5. CASE Settings(o, h)
  <2>1. runs' \in [Operators -> Run] /\ RunsOk'
    BY <1>5, AdvanceType, StopType DEF Settings, At
  <2> QED
    BY <1>5, <2>1 DEF Settings, TypeInv, TypeOK, sourceVars, dataVars, nameVars
<1>6. CASE Ban(o, h)
  <2>1. runs' \in [Operators -> Run] /\ RunsOk'
    BY <1>6, AdvanceType DEF Ban, At
  <2> QED
    BY <1>6, <2>1 DEF Ban, TypeInv, TypeOK, diskVars, sourceVars, dataVars, nameVars
<1>7. CASE Pick(o, h)
  <2>1. runs' \in [Operators -> Run] /\ RunsOk'
    BY <1>7, AdvanceToType DEF Pick, At, TypeInv, TypeOK
  <2> QED
    BY <1>7, <2>1 DEF Pick, TypeInv, TypeOK, diskVars, sourceVars, dataVars, nameVars
<1> QED
  BY <1>1, <1>2, <1>3, <1>4, <1>5, <1>6, <1>7

LEMMA DeleteSteps ==
  ASSUME TypeInv, NEW o \in Operators, NEW h \in Hosts, Cleanup(o, h) \/ Archive(o, h)
  PROVE  TypeInv'
<1>1. runs' \in [Operators -> Run] /\ RunsOk'
  BY AdvanceType DEF Cleanup, Archive, At
<1>2. PICK gone : Remove(h, gone)
  BY DEF Cleanup, Archive
<1> QED
  BY <1>1, <1>2, RemoveType
  DEF Cleanup, Archive, TypeInv, TypeOK, sourceVars, nameVars

(***************************************************************************)
(* Everything else.                                                        *)
(***************************************************************************)
LEMMA StartType ==
  ASSUME TypeInv, NEW o \in Operators, NEW c \in Commands, Start(o, c)
  PROVE  TypeInv'
<1> DEFINE new == [cmd |-> c, at |-> First[c], todo |-> HostsOf(First[c]),
                   rel |-> NoId, last |-> NoId, status |-> "running"]
<1>1. c \in CommandNames
  BY CommandAssumption
<1>2. First[c] \in DOMAIN After[c] /\ First[c] \in StepNames
  BY <1>1, PlanSteps
<1>3. First[c] \in {"newpath", "pick", "cleanup"}
  BY <1>1 DEF First, CommandNames
<1>4. new \in Run /\ RunOk(new)
  BY <1>1, <1>2, <1>3, HostsOfType DEF Run, RunOk
<1>5. runs' = [runs EXCEPT ![o] = new]
  BY DEF Start
<1> HIDE DEF new
<1>6. runs' \in [Operators -> Run] /\ RunsOk'
  BY <1>4, <1>5 DEF TypeInv, TypeOK, RunsOk
<1> QED
  BY <1>6 DEF Start, TypeInv, TypeOK, diskVars, sourceVars, dataVars, nameVars

LEMMA WorldType ==
  ASSUME TypeInv,
         Push \/ (\E s \in Sites : Edit(s)) \/ (\E v \in VarnishHosts : View(v))
  PROVE  TypeInv'
<1>1. CASE Push
  <2>1. head' \in Revs
    BY <1>1, BoundAssumption DEF Push, TypeInv, TypeOK, Revs
  <2> QED
    BY <1>1, <2>1 DEF Push, TypeInv, TypeOK, RunsOk, diskVars, dataVars, nameVars
<1>2. ASSUME NEW s \in Sites, Edit(s) PROVE TypeInv'
  <2>1. db[s] \in Database
    BY DEF TypeInv, TypeOK
  <2>2. [db[s] EXCEPT !.edits = @ + 1] \in Database
    BY <1>2, <2>1, BoundAssumption DEF Edit, Database
  <2>3. db' \in [Sites -> Database]
    BY <1>2, <2>2 DEF Edit, TypeInv, TypeOK
  <2> QED
    BY <1>2, <2>3 DEF Edit, TypeInv, TypeOK, RunsOk, diskVars, sourceVars, nameVars
<1>3. ASSUME NEW v \in VarnishHosts, View(v) PROVE TypeInv'
  <2>1. v \in Hosts
    BY HostAssumption
  <2> QED
    BY <1>3, <2>1
    DEF View, TypeInv, TypeOK, RunsOk, diskVars, sourceVars, dataVars, nameVars
<1> QED
  BY <1>1, <1>2, <1>3

LEMMA TypeStep == TypeInv /\ [Next]_vars => TypeInv'
<1> SUFFICES ASSUME TypeInv, [Next]_vars PROVE TypeInv'
  OBVIOUS
<1>1. ASSUME NEW o \in Operators, NEW c \in Commands, Start(o, c) PROVE TypeInv'
  BY <1>1, StartType
<1>2. ASSUME NEW o \in Operators, LocalStep(o) \/ DbStep(o) PROVE TypeInv'
  BY <1>2, BuildSteps, DatabaseSteps
<1>3. ASSUME NEW o \in Operators, NEW h \in Hosts, HostStep(o, h) PROVE TypeInv'
  BY <1>3, BuildSteps, PublishSteps, DeleteSteps DEF HostStep
<1>4. ASSUME NEW o \in Operators, Refuse(o) \/ Abort(o) PROVE TypeInv'
  <2>1. runs' \in [Operators -> Run] /\ RunsOk'
    BY <1>4, StopType DEF Refuse, Abort
  <2> QED
    BY <1>4, <2>1
    DEF Refuse, Abort, TypeInv, TypeOK, diskVars, sourceVars, dataVars, nameVars
<1>5. ASSUME Push \/ (\E s \in Sites : Edit(s)) \/ (\E v \in VarnishHosts : View(v))
      PROVE  TypeInv'
  BY <1>5, WorldType
<1>6. CASE UNCHANGED vars
  BY <1>6
  DEF vars, diskVars, sourceVars, dataVars, nameVars, TypeInv, TypeOK, RunsOk
<1> QED
  BY <1>1, <1>2, <1>3, <1>4, <1>5, <1>6 DEF Next, Step

\* Every variable has its type in every state, for any hosts, sites, operators,
\* commands, faults and bounds, whether or not the operators take turns.
THEOREM TypeCorrect == Spec => []TypeOK
<1>1. TypeInv => TypeOK
  BY DEF TypeInv
<1> QED
  BY <1>1, InitType, TypeStep, PTL DEF Spec

(***************************************************************************)
(* The release that is being served is never deleted, on any number of     *)
(* hosts and whatever fails.                                               *)
(*                                                                         *)
(* LiveReleaseExists is not inductive.  What makes it so is a chain: the   *)
(* run that is active knows its release (a deploy the newest name ever     *)
(* given); the aliases step finds the release on every host before the     *)
(* first host links it; after the link step every host runs it; so the     *)
(* clean-up that follows keeps it, being the newest of the names.          *)
(***************************************************************************)
\* What the active run has established when it is at its step.
RunLive(run) ==
  /\ run.cmd \in {"deploy", "rollback"}
  /\ run.cmd = "deploy" /\ run.at # "newpath" => run.rel = lastId
  /\ run.at = "aliases" => \A h \in Hosts \ run.todo : run.rel \in releases[h]
  /\ run.at = "link" => /\ \A h \in Hosts : run.rel \in releases[h]
                        /\ \A h \in Hosts \ run.todo : current[h] = run.rel
  /\ run.at \in {"web", "settings", "updatedb", "ban", "cleanup"} =>
       \A h \in Hosts : current[h] = run.rel

OneAtATime == \A o, p \in Operators : Running(o) /\ Running(p) => o = p
RunsLive == \A o \in Operators : Running(o) => RunLive(runs[o])
NamesGiven == \A h \in Hosts : \A r \in releases[h] : r <= lastId

LiveInv == /\ TypeInv
           /\ OneAtATime
           /\ RunsLive
           /\ NamesGiven
           /\ LiveReleaseExists

\* Where a plan comes from when it reaches the steps RunLive speaks of.
LEMMA PlanPath ==
  ASSUME NEW c \in {"deploy", "rollback"}, NEW s \in DOMAIN After[c]
  PROVE  /\ After[c][s] = "link" => s = "aliases"
         /\ After[c][s] \in {"web", "settings", "updatedb", "ban", "cleanup"} =>
              s \in {"link", "web", "settings", "updatedb", "ban"}
         /\ After[c][s] # "newpath"
<1>1. CASE c = "deploy"
  BY <1>1 DEF After
<1>2. CASE c = "rollback"
  BY <1>2 DEF After
<1> QED
  BY <1>1, <1>2

\* These steps belong to deploys only.
LEMMA DeployOnly ==
  ASSUME NEW c \in {"deploy", "rollback"}, NEW s \in DOMAIN After[c],
         s \in {"newpath", "copy", "cleanup"}
  PROVE  c = "deploy"
BY DEF After

LEMMA EveryHost == HostsOf("aliases") = Hosts /\ HostsOf("link") = Hosts
BY DEF HostsOf

\* The run once h has done its step: still at it, or at the next with all its hosts.
LEMMA DoneMoves ==
  ASSUME NEW run \in Run, NEW h, run.status = "running", RunOk(run),
         Done(run, h).status = "running"
  PROVE  \/ /\ Done(run, h).at = run.at
            /\ Done(run, h).todo = run.todo \ {h}
         \/ /\ Done(run, h).at = After[run.cmd][run.at]
            /\ Done(run, h).todo = HostsOf(Done(run, h).at)
            /\ run.todo \ {h} = {}
<1>1. CASE run.todo \ {h} # {}
  <2>1. Done(run, h) = [run EXCEPT !.todo = run.todo \ {h}]
    BY <1>1 DEF Done
  <2> QED
    BY <2>1 DEF Run
<1>2. CASE run.todo \ {h} = {}
  <2> DEFINE next == After[run.cmd][run.at]
             st == IF next = "end" THEN "ok" ELSE "running"
  <2>1. Done(run, h) = [run EXCEPT !.at = next, !.todo = HostsOf(next), !.status = st]
    BY <1>2 DEF Done
  <2> HIDE DEF next, st
  <2>2. Done(run, h).at = next /\ Done(run, h).todo = HostsOf(next)
    BY <2>1 DEF Run
  <2> QED
    BY <1>2, <2>2 DEF next
<1> QED
  BY <1>1, <1>2

\* A step of the active run carries RunLive on, if an aliases step saw the release
\* and a link step linked it.
LEMMA StepKeepsRunLive ==
  ASSUME LiveInv, NEW o \in Operators, Running(o), NEW h \in runs[o].todo,
         NEW n, n.cmd = runs[o].cmd,
         n.at = Done(runs[o], h).at, n.todo = Done(runs[o], h).todo,
         Done(runs[o], h).status = "running",
         runs[o].at \notin {"newpath", "pick"} => n.rel = runs[o].rel,
         runs[o].cmd = "deploy" => n.rel = lastId',
         runs[o].at = "aliases" => runs[o].rel \in releases[h],
         runs[o].at \in {"aliases", "link"} => releases' = releases,
         IF runs[o].at = "link" THEN current' = [current EXCEPT ![h] = runs[o].rel]
                                ELSE current' = current
  PROVE  RunLive(n)'
<1> DEFINE run == runs[o]
<1>1. /\ run \in Run /\ RunOk(run) /\ run.status = "running" /\ RunLive(run)
      /\ current \in [Hosts -> Ids]
  BY DEF LiveInv, TypeInv, TypeOK, RunsOk, RunsLive, Running
<1>2. run.at \in DOMAIN After[run.cmd] /\ run.cmd \in {"deploy", "rollback"}
  BY <1>1 DEF RunOk, RunLive
<1>3. CASE n.at = run.at /\ n.todo = run.todo \ {h}
  BY <1>1, <1>3 DEF RunLive
<1>4. CASE n.at = After[run.cmd][run.at] /\ n.todo = HostsOf(n.at) /\ run.todo \ {h} = {}
  <2>1. /\ n.at = "link" => run.at = "aliases"
        /\ n.at \in {"web", "settings", "updatedb", "ban", "cleanup"} =>
             run.at \in {"link", "web", "settings", "updatedb", "ban"}
        /\ n.at # "newpath"
    BY <1>2, <1>4, PlanPath
  <2>2. n.at \in {"aliases", "link"} => n.todo = Hosts
    BY <1>4, EveryHost
  <2>3. run.todo = {h}
    BY <1>4
  <2>4. n.cmd \in {"deploy", "rollback"} /\ (n.cmd = "deploy" => n.rel = lastId')
    BY <1>2
  <2>5. n.at = "link" => \A g \in Hosts : n.rel \in releases'[g]
    BY <1>1, <2>1, <2>3 DEF RunLive
  <2>6. run.at = "link" => \A g \in Hosts : current'[g] = n.rel
    BY <1>1, <2>3 DEF RunLive
  <2>7. n.at \in {"web", "settings", "updatedb", "ban", "cleanup"} =>
          \A g \in Hosts : current'[g] = n.rel
    BY <1>1, <2>1, <2>6 DEF RunLive
  <2> QED
    BY <2>2, <2>4, <2>5, <2>7 DEF RunLive
<1> QED
  BY <1>1, <1>3, <1>4, DoneMoves

\* When one run changes and keeps RunLive, and no other run is active, all do.
LEMMA OneRunChanges ==
  ASSUME LiveInv, NEW o \in Operators, Running(o),
         NEW n, runs' = [runs EXCEPT ![o] = n],
         n.status = "running" => RunLive(n)'
  PROVE  OneAtATime' /\ RunsLive'
<1>1. runs \in [Operators -> Run] /\ OneAtATime
  BY DEF LiveInv, TypeInv, TypeOK
<1>2. \A p \in Operators : Running(p)' => p = o
  BY <1>1 DEF OneAtATime, Running
<1>3. runs'[o] = n
  BY <1>1
<1>4. OneAtATime'
  BY <1>2 DEF OneAtATime
<1>5. RunsLive'
  BY <1>2, <1>3 DEF RunsLive, Running, RunLive
<1> QED
  BY <1>4, <1>5

LEMMA AdvanceLive ==
  ASSUME LiveInv, NEW o \in Operators, Running(o), NEW h \in runs[o].todo,
         Advance(o, h), lastId' = lastId,
         runs[o].at \notin {"newpath", "pick"},
         runs[o].at = "aliases" => runs[o].rel \in releases[h],
         runs[o].at \in {"aliases", "link"} => releases' = releases,
         IF runs[o].at = "link" THEN current' = [current EXCEPT ![h] = runs[o].rel]
                                ELSE current' = current
  PROVE  OneAtATime' /\ RunsLive'
<1> PICK n : n = Done(runs[o], h)
  OBVIOUS
<1>1. /\ runs[o] \in Run /\ RunOk(runs[o]) /\ runs[o].status = "running"
      /\ RunLive(runs[o])
  BY DEF LiveInv, TypeInv, TypeOK, RunsOk, RunsLive, Running
<1>2. n.cmd = runs[o].cmd /\ n.rel = runs[o].rel
  BY <1>1, DoneType
<1>3. runs[o].cmd = "deploy" => n.rel = lastId'
  BY <1>1, <1>2 DEF RunLive
<1>4. runs' = [runs EXCEPT ![o] = n]
  BY DEF Advance
<1>5. n.status = "running" => RunLive(n)'
  BY <1>2, <1>3, StepKeepsRunLive
<1> QED
  BY <1>4, <1>5, OneRunChanges

LEMMA AdvanceToLive ==
  ASSUME LiveInv, NEW o \in Operators, Running(o), NEW h \in runs[o].todo,
         NEW r \in Ids, AdvanceTo(o, h, r),
         runs[o].at \in {"newpath", "pick"},
         runs[o].cmd = "deploy" => r = lastId',
         current' = current
  PROVE  OneAtATime' /\ RunsLive'
<1> DEFINE old == Done(runs[o], h)
<1> PICK n : n = [old EXCEPT !.rel = r]
  OBVIOUS
<1>1. /\ runs[o] \in Run /\ RunOk(runs[o]) /\ runs[o].status = "running"
  BY DEF LiveInv, TypeInv, TypeOK, RunsOk, Running
<1>2. old \in Run /\ old.cmd = runs[o].cmd
  BY <1>1, DoneType
<1>3. /\ n.cmd = runs[o].cmd /\ n.rel = r /\ n.at = old.at
      /\ n.todo = old.todo /\ n.status = old.status
  BY <1>2 DEF Run
<1>4. runs' = [runs EXCEPT ![o] = n]
  BY DEF AdvanceTo, LiveInv, TypeInv, TypeOK
<1>5. n.status = "running" => RunLive(n)'
  BY <1>3, StepKeepsRunLive
<1> QED
  BY <1>4, <1>5, OneRunChanges

LEMMA StopLive ==
  ASSUME LiveInv, NEW o \in Operators, Running(o), Stop(o)
  PROVE  OneAtATime' /\ RunsLive'
<1>1. [IdleRun EXCEPT !.status = "failed"].status # "running"
  BY DEF IdleRun
<1> QED
  BY <1>1, OneRunChanges DEF Stop

LEMMA AdvanceLastLive ==
  ASSUME LiveInv, NEW o \in Operators, Running(o), NEW h \in runs[o].todo, NEW l,
         runs' = [runs EXCEPT ![o] = [Done(@, h) EXCEPT !.last = l]],
         runs[o].at = "gunzip", lastId' = lastId, current' = current
  PROVE  OneAtATime' /\ RunsLive'
<1> DEFINE old == Done(runs[o], h)
<1> PICK n : n = [old EXCEPT !.last = l]
  OBVIOUS
<1>1. /\ runs[o] \in Run /\ RunOk(runs[o]) /\ runs[o].status = "running"
      /\ RunLive(runs[o])
  BY DEF LiveInv, TypeInv, TypeOK, RunsOk, RunsLive, Running
<1>2. old \in Run /\ old.cmd = runs[o].cmd /\ old.rel = runs[o].rel
  BY <1>1, DoneType
<1>3. /\ n.cmd = runs[o].cmd /\ n.rel = runs[o].rel /\ n.at = old.at
      /\ n.todo = old.todo /\ n.status = old.status
  BY <1>2 DEF Run
<1>4. runs' = [runs EXCEPT ![o] = n]
  BY DEF LiveInv, TypeInv, TypeOK
<1>5. runs[o].cmd = "deploy" => n.rel = lastId'
  BY <1>1, <1>3 DEF RunLive
<1>6. n.status = "running" => RunLive(n)'
  BY <1>3, <1>5, StepKeepsRunLive
<1> QED
  BY <1>4, <1>6, OneRunChanges

(***************************************************************************)
(* One lemma for each kind of step.                                        *)
(***************************************************************************)
TakeTurns == Serialised /\ "cleanup" \notin Commands

LEMMA InitLive == Init => LiveInv
<1> SUFFICES ASSUME Init PROVE LiveInv
  OBVIOUS
<1>1. \A o \in Operators : ~Running(o)
  BY DEF Init, Running, IdleRun
<1>2. NamesGiven /\ LiveReleaseExists
  BY DEF Init, NamesGiven, LiveReleaseExists
<1> QED
  BY <1>1, <1>2, InitType DEF LiveInv, OneAtATime, RunsLive

LEMMA StartLive ==
  ASSUME LiveInv, TakeTurns, NEW o \in Operators, NEW c \in Commands, Start(o, c)
  PROVE  LiveInv'
<1> PICK n : n = [cmd |-> c, at |-> First[c], todo |-> HostsOf(First[c]),
                  rel |-> NoId, last |-> NoId, status |-> "running"]
  OBVIOUS
<1>1. c \in {"deploy", "rollback"}
  BY CommandAssumption DEF TakeTurns, CommandNames
<1>2. n.cmd = c /\ n.at = First[c]
  OBVIOUS
<1>3. n.at \in {"newpath", "pick"} /\ (c = "deploy" => n.at = "newpath")
  BY <1>1, <1>2 DEF First
<1>4. RunLive(n)'
  BY <1>1, <1>2, <1>3 DEF RunLive
<1>5. runs' = [runs EXCEPT ![o] = n] /\ \A p \in Operators : ~Running(p)
  BY DEF Start, TakeTurns
<1>6. runs \in [Operators -> Run]
  BY DEF LiveInv, TypeInv, TypeOK
<1>7. \A p \in Operators : Running(p)' => p = o /\ runs'[p] = n
  BY <1>5, <1>6 DEF Running
<1>8. OneAtATime' /\ RunsLive'
  BY <1>4, <1>7 DEF OneAtATime, RunsLive, RunLive
<1>9. TypeInv'
  BY StartType DEF LiveInv
<1> QED
  BY <1>8, <1>9
  DEF Start, LiveInv, NamesGiven, LiveReleaseExists, diskVars, nameVars

\* Steps that leave the releases, "current" and the names alone.
LEMMA QuietLive ==
  ASSUME LiveInv, TypeInv', releases' = releases, current' = current, lastId' = lastId,
         OneAtATime' /\ RunsLive'
  PROVE  LiveInv'
BY DEF LiveInv, NamesGiven, LiveReleaseExists

LEMMA QuietRuns ==
  ASSUME LiveInv, releases' = releases, current' = current, lastId' = lastId, runs' = runs
  PROVE  OneAtATime' /\ RunsLive'
BY DEF LiveInv, OneAtATime, RunsLive, RunLive, Running

LEMMA NewPathLive ==
  ASSUME LiveInv, NEW o \in Operators, NewPath(o)
  PROVE  LiveInv'
<1>1. lastId' = lastId + 1 /\ lastId \in Nat /\ lastId' \in Ids
  BY BoundAssumption DEF NewPath, LiveInv, TypeInv, TypeOK, Ids
<1>2. OneAtATime' /\ RunsLive'
  BY <1>1, AdvanceToLive DEF NewPath, At, diskVars
<1>3. TypeInv'
  BY BuildSteps DEF LiveInv, LocalStep
<1>4. NamesGiven'
  BY <1>1 DEF NewPath, LiveInv, NamesGiven, TypeInv, TypeOK, diskVars, Ids
<1>5. LiveReleaseExists'
  BY DEF NewPath, LiveInv, LiveReleaseExists, diskVars
<1> QED
  BY <1>2, <1>3, <1>4, <1>5 DEF LiveInv

LEMMA PickLive ==
  ASSUME LiveInv, NEW o \in Operators, NEW h \in Hosts, Pick(o, h)
  PROVE  LiveInv'
<1>1. runs[o].cmd # "deploy"
  <2>1. RunOk(runs[o]) /\ runs[o].status = "running" /\ runs[o].at = "pick"
    BY DEF Pick, At, Running, LiveInv, TypeInv, RunsOk
  <2> QED
    BY <2>1 DEF RunOk, After
<1>2. PICK r \in releases[h] : AdvanceTo(o, h, r)
  BY DEF Pick
<1>3. r \in Ids
  BY DEF LiveInv, TypeInv, TypeOK
<1>4. OneAtATime' /\ RunsLive'
  BY <1>1, <1>2, <1>3, AdvanceToLive DEF Pick, At, diskVars
<1>5. TypeInv'
  BY PublishSteps DEF LiveInv
<1> QED
  BY <1>4, <1>5, QuietLive DEF Pick, diskVars, nameVars

LEMMA CopyLive ==
  ASSUME LiveInv, NEW o \in Operators, NEW h \in Hosts, Copy(o, h) \/ CopyBreaks(o, h)
  PROVE  LiveInv'
<1>1. Running(o) /\ h \in runs[o].todo /\ runs[o].at = "copy"
  BY DEF Copy, CopyBreaks, At
<1>2. runs[o].cmd = "deploy" /\ runs[o].rel = lastId
  <2>1. /\ RunOk(runs[o]) /\ RunLive(runs[o]) /\ runs[o].status = "running"
    BY <1>1 DEF Running, LiveInv, TypeInv, RunsOk, RunsLive
  <2> QED
    BY <1>1, <2>1, DeployOnly DEF RunOk, RunLive
<1>3. releases' = [releases EXCEPT ![h] = @ \cup {lastId}]
  BY <1>2 DEF Copy, CopyBreaks, PutRelease
<1>4. current' = current /\ lastId' = lastId
  BY DEF Copy, CopyBreaks, nameVars
<1>5. OneAtATime' /\ RunsLive'
  BY <1>1, <1>4, AdvanceLive, StopLive DEF Copy, CopyBreaks
<1>6. TypeInv'
  BY BuildSteps DEF LiveInv
<1>7. releases \in [Hosts -> SUBSET Ids] /\ lastId \in Nat
  BY BoundAssumption DEF LiveInv, TypeInv, TypeOK, Ids
<1>8. NamesGiven'
  BY <1>3, <1>4, <1>7 DEF LiveInv, NamesGiven
<1>9. LiveReleaseExists'
  BY <1>3, <1>4, <1>7 DEF LiveInv, LiveReleaseExists
<1> QED
  BY <1>5, <1>6, <1>8, <1>9 DEF LiveInv

LEMMA LinkLive ==
  ASSUME LiveInv, NEW o \in Operators, NEW h \in Hosts, Link(o, h)
  PROVE  LiveInv'
<1>1. Running(o) /\ h \in runs[o].todo /\ runs[o].at = "link"
  BY DEF Link, At
<1>2. releases' = releases /\ lastId' = lastId
  BY DEF Link, nameVars
<1>3. current' = [current EXCEPT ![h] = runs[o].rel]
  BY DEF Link
<1>4. OneAtATime' /\ RunsLive'
  BY <1>1, <1>2, <1>3, AdvanceLive DEF Link
<1>5. TypeInv'
  BY PublishSteps DEF LiveInv
<1>6. runs[o].rel \in releases[h] /\ current \in [Hosts -> Ids]
  BY <1>1 DEF LiveInv, RunsLive, RunLive, TypeInv, TypeOK
<1>7. LiveReleaseExists'
  BY <1>2, <1>3, <1>6 DEF LiveInv, LiveReleaseExists
<1> QED
  BY <1>2, <1>4, <1>5, <1>7 DEF LiveInv, NamesGiven

\* The newest name is among those that are kept.
LEMMA NewestKept ==
  ASSUME NEW S \in SUBSET Ids, NEW r \in S, \A s \in S : s <= r
  PROVE  r \in Kept(S)
<1>1. {s \in S : s > r} = {}
  <2>1. \A s \in S : s \in Nat
    BY BoundAssumption DEF Ids
  <2>2. \A s \in S : ~(s > r)
    BY <2>1
  <2> QED
    BY <2>2
<1>2. Cardinality({s \in S : s > r}) = 0
  BY <1>1, FS_EmptySet
<1> QED
  BY <1>2, KeepAssumption DEF Kept

LEMMA DeleteLive ==
  ASSUME LiveInv, NEW o \in Operators, NEW h \in Hosts, Cleanup(o, h) \/ Archive(o, h)
  PROVE  LiveInv'
<1>1. Running(o) /\ h \in runs[o].todo /\ runs[o].at \in {"cleanup", "archive"}
  BY DEF Cleanup, Archive, At
<1>2. PICK gone : /\ Remove(h, gone)
                  /\ current[h] \notin gone
  <2>1. CASE Cleanup(o, h)
    <3>1. runs[o].at = "cleanup"
      BY <2>1 DEF Cleanup, At
    <3>2. RunOk(runs[o]) /\ RunLive(runs[o]) /\ runs[o].status = "running"
      BY <1>1 DEF Running, LiveInv, TypeInv, RunsOk, RunsLive
    <3>3. current[h] = lastId
      BY <3>1, <3>2, DeployOnly DEF RunOk, RunLive
    <3>4. current[h] \in Kept(releases[h])
      <4>1. releases[h] \in SUBSET Ids /\ current[h] \in releases[h]
        BY DEF LiveInv, TypeInv, TypeOK, LiveReleaseExists
      <4>2. \A s \in releases[h] : s <= current[h]
        BY <3>3 DEF LiveInv, NamesGiven
      <4> QED
        BY <4>1, <4>2, NewestKept
    <3> QED
      BY <2>1, <3>4 DEF Cleanup
  <2>2. CASE Archive(o, h)
    BY <2>2 DEF Archive
  <2> QED
    BY <2>1, <2>2
<1>3. releases' = [releases EXCEPT ![h] = @ \ gone]
  BY <1>2 DEF Remove
<1>4. current' = current /\ lastId' = lastId
  BY DEF Cleanup, Archive, nameVars
<1>5. OneAtATime' /\ RunsLive'
  BY <1>1, <1>4, AdvanceLive DEF Cleanup, Archive
<1>6. TypeInv'
  BY DeleteSteps DEF LiveInv
<1>7. releases \in [Hosts -> SUBSET Ids]
  BY DEF LiveInv, TypeInv, TypeOK
<1>8. NamesGiven'
  BY <1>3, <1>4, <1>7 DEF LiveInv, NamesGiven
<1>9. LiveReleaseExists'
  BY <1>2, <1>3, <1>4, <1>7 DEF LiveInv, LiveReleaseExists
<1> QED
  BY <1>5, <1>6, <1>8, <1>9 DEF LiveInv

LEMMA OtherHostSteps ==
  ASSUME LiveInv, NEW o \in Operators, NEW h \in Hosts,
         \/ Rsync(o, h) \/ Aliases(o, h) \/ RemoveWeb(o, h) \/ LinkWeb(o, h)
         \/ Settings(o, h) \/ Ban(o, h)
  PROVE  LiveInv'
<1>1. releases' = releases /\ current' = current /\ lastId' = lastId
  BY DEF Rsync, Aliases, RemoveWeb, LinkWeb, Settings, Ban, diskVars, nameVars
<1>2. OneAtATime' /\ RunsLive'
  <2>1. CASE Rsync(o, h) \/ LinkWeb(o, h) \/ Ban(o, h)
    BY <1>1, <2>1, AdvanceLive DEF Rsync, LinkWeb, Ban, At
  <2>2. CASE Aliases(o, h)
    BY <1>1, <2>2, AdvanceLive DEF Aliases, At
  <2>3. CASE Settings(o, h)
    BY <1>1, <2>3, AdvanceLive, StopLive DEF Settings, At
  <2>4. CASE RemoveWeb(o, h)
    BY <1>1, <2>4, QuietRuns DEF RemoveWeb
  <2> QED
    BY <2>1, <2>2, <2>3, <2>4
<1>3. TypeInv'
  BY BuildSteps, PublishSteps DEF LiveInv
<1> QED
  BY <1>1, <1>2, <1>3, QuietLive

LEMMA OtherRunSteps ==
  ASSUME LiveInv, NEW o \in Operators, Stage(o) \/ Build(o) \/ DbStep(o)
  PROVE  LiveInv'
<1>1. releases' = releases /\ current' = current /\ lastId' = lastId
  BY DEF Stage, Build, DbStep, DumpTaken, DumpSkipped, Gunzip, DropTables, Import,
         UpdatesDone, UpdateHook, diskVars, nameVars
<1>2. OneAtATime' /\ RunsLive'
  <2>1. CASE Stage(o) \/ Build(o)
    BY <1>1, <2>1, AdvanceLive DEF Stage, Build, At
  <2>2. CASE DumpTaken(o) \/ DumpSkipped(o)
    BY <1>1, <2>2, AdvanceLive DEF DumpTaken, DumpSkipped, At
  <2>3. CASE DropTables(o) \/ Import(o) \/ UpdatesDone(o)
    BY <1>1, <2>3, AdvanceLive DEF DropTables, Import, UpdatesDone, CanUpdate, At
  <2>4. CASE Gunzip(o)
    BY <1>1, <2>4, AdvanceLastLive DEF Gunzip, At
  <2>5. ASSUME NEW s \in Sites, UpdateHook(o, s) PROVE OneAtATime' /\ RunsLive'
    BY <1>1, <2>5, QuietRuns DEF UpdateHook
  <2> QED
    BY <2>1, <2>2, <2>3, <2>4, <2>5 DEF DbStep
<1>3. TypeInv'
  BY BuildSteps, DatabaseSteps DEF LiveInv, LocalStep
<1> QED
  BY <1>1, <1>2, <1>3, QuietLive

LEMMA LiveStep == LiveInv /\ TakeTurns /\ [Next]_vars => LiveInv'
<1> SUFFICES ASSUME LiveInv, TakeTurns, [Next]_vars PROVE LiveInv'
  OBVIOUS
<1>1. ASSUME NEW o \in Operators, NEW c \in Commands, Start(o, c) PROVE LiveInv'
  BY <1>1, StartLive
<1>2. ASSUME NEW o \in Operators, LocalStep(o) \/ DbStep(o) PROVE LiveInv'
  BY <1>2, NewPathLive, OtherRunSteps DEF LocalStep
<1>3. ASSUME NEW o \in Operators, NEW h \in Hosts, HostStep(o, h) PROVE LiveInv'
  BY <1>3, PickLive, CopyLive, LinkLive, DeleteLive, OtherHostSteps DEF HostStep
<1>4. ASSUME NEW o \in Operators, Refuse(o) \/ Abort(o) PROVE LiveInv'
  <2>1. OneAtATime' /\ RunsLive'
    BY <1>4, StopLive DEF Refuse, Abort
  <2>2. TypeInv'
    BY <1>4, TypeStep DEF LiveInv, Next, Step
  <2> QED
    BY <1>4, <2>1, <2>2, QuietLive DEF Refuse, Abort, diskVars, nameVars
<1>5. ASSUME \/ Push \/ (\E s \in Sites : Edit(s)) \/ (\E v \in VarnishHosts : View(v))
             \/ UNCHANGED vars
      PROVE  LiveInv'
  <2>1. /\ releases' = releases /\ current' = current /\ lastId' = lastId
        /\ runs' = runs
    BY <1>5 DEF Push, Edit, View, vars, diskVars, nameVars
  <2>2. TypeInv'
    BY TypeStep DEF LiveInv
  <2> QED
    BY <2>1, <2>2, QuietRuns, QuietLive
<1> QED
  BY <1>1, <1>2, <1>3, <1>4, <1>5 DEF Next, Step

\* The release "current" names exists on every host: for any hosts, operators that
\* take turns, faults and bounds, deploys and rollbacks never delete the live code
\* (deploy:cleanup, deploy:cleanup_rollback) nor link code that is not there.
THEOREM LiveReleaseSafe ==
  ASSUME TakeTurns
  PROVE  Spec => []LiveReleaseExists
<1>1. LiveInv => LiveReleaseExists
  BY DEF LiveInv
<1>2. LiveInv /\ [Next]_vars => LiveInv'
  BY LiveStep
<1> QED
  BY <1>1, <1>2, InitLive, PTL DEF Spec

(***************************************************************************)
(* What editors wrote before a release was named is never lost, however    *)
(* often deploys and rollbacks fail.                                       *)
(*                                                                         *)
(* ContentKept is not inductive: what a rollback restores is what a dump   *)
(* holds, and that has to be known while the dump lies in its release.     *)
(* Each dump holds at least what the site held when its own release, or an *)
(* older one that is still there, was named; and the dump restored is that *)
(* of the newest name.                                                     *)
(***************************************************************************)
\* A database that is up, and every dump, hold what the releases began with.
SiteOk == db[1].up => \A r \in releases[DbHost] : base[r].edits <= db[1].edits
DumpOk(s) ==
  dump[s].form # "none" =>
    /\ s \in releases[DbHost]
    /\ \A r \in releases[DbHost] : r <= s => base[r].edits <= dump[s].edits
DumpsOk == \A s \in Ids : DumpOk(s)

\* What the active run knows: a deploy that the site holds what it held when the
\* release was named, and has no dump yet; a rollback that its dump is the newest's.
IsNewest(r) == r \in releases[DbHost] /\ \A s \in releases[DbHost] : s <= r
BeforeDump == {"stage", "build", "rsync", "copy"}
RunContent(run) ==
  /\ run.cmd = "deploy" /\ run.at # "newpath" =>
       (db[1].up => base[run.rel].edits <= db[1].edits)
  /\ run.at \in BeforeDump => dump[run.rel].form = "none"
  /\ run.at \in {"drop", "import"} => IsNewest(run.last)
RunsContent == \A o \in Operators : Running(o) => RunContent(runs[o])

ContentInv == LiveInv /\ SiteOk /\ DumpsOk /\ RunsContent

\* Where a plan comes from when it reaches the steps RunContent speaks of.
LEMMA ContentPath ==
  ASSUME NEW c \in {"deploy", "rollback"}, NEW s \in DOMAIN After[c]
  PROVE  /\ After[c][s] \in BeforeDump => s \in {"newpath"} \cup BeforeDump
         /\ After[c][s] \in {"drop", "import"} => s \in {"gunzip", "drop"}
<1>1. CASE c = "deploy"
  BY <1>1 DEF After, BeforeDump
<1>2. CASE c = "rollback"
  BY <1>2 DEF After, BeforeDump
<1> QED
  BY <1>1, <1>2

\* The active run of a step.
LEMMA ActiveRun ==
  ASSUME ContentInv, NEW o \in Operators, Running(o)
  PROVE  /\ runs[o] \in Run /\ runs[o].status = "running"
         /\ RunOk(runs[o]) /\ RunLive(runs[o]) /\ RunContent(runs[o])
         /\ runs[o].cmd \in {"deploy", "rollback"}
         /\ runs[o].at \in DOMAIN After[runs[o].cmd]
BY DEF ContentInv, LiveInv, TypeInv, TypeOK, RunsOk, RunsLive, RunsContent, RunLive, RunOk, Running

\* What the variables of the site are.
LEMMA SiteTypes ==
  ASSUME ContentInv
  PROVE  /\ 1 \in Sites /\ db \in [Sites -> Database] /\ db[1].edits \in Nat
         /\ dump \in [Ids -> Dump] /\ \A r \in Ids : dump[r].edits \in Nat
         /\ releases \in [Hosts -> SUBSET Ids] /\ DbHost \in Hosts
         /\ \A r \in Ids : base[r].edits \in Nat
         /\ lastId \in Ids /\ lastId \in Nat /\ Ids \subseteq Nat
<1>1. TypeOK /\ 1 \in Sites /\ DbHost \in Hosts /\ Ids \subseteq Nat
  BY HostAssumption, BoundAssumption DEF ContentInv, LiveInv, TypeInv, Sites, Ids
<1>2. 0..MaxEdits \subseteq Nat
  BY BoundAssumption
<1>3. db[1] \in Database /\ \A r \in Ids : dump[r] \in Dump /\ base[r] \in [edits : 0..MaxEdits, head : Revs]
  BY <1>1 DEF TypeOK
<1> QED
  BY <1>1, <1>2, <1>3 DEF TypeOK, Database, Dump

\* The run a step leaves knows what RunContent says, if the step saw to it.
LEMMA StepKeepsRunContent ==
  ASSUME ContentInv, NEW o \in Operators, Running(o), NEW h \in runs[o].todo, NEW n,
         n.cmd = runs[o].cmd, n.at = Done(runs[o], h).at,
         Done(runs[o], h).status = "running",
         runs[o].cmd = "deploy" => (db'[1].up => base'[n.rel].edits <= db'[1].edits),
         runs[o].at \in {"newpath"} \cup BeforeDump => dump'[n.rel].form = "none",
         runs[o].at \in {"gunzip", "drop", "import"} => IsNewest(n.last)'
  PROVE  RunContent(n)'
<1>1. n.at = runs[o].at \/ n.at = After[runs[o].cmd][runs[o].at]
  BY ActiveRun, DoneMoves
<1>2. /\ n.at \in BeforeDump => runs[o].at \in {"newpath"} \cup BeforeDump
      /\ n.at \in {"drop", "import"} => runs[o].at \in {"gunzip", "drop", "import"}
  BY <1>1, ActiveRun, ContentPath
<1> QED
  BY <1>2 DEF RunContent

LEMMA OneRunContent ==
  ASSUME ContentInv, NEW o \in Operators, Running(o),
         NEW n, runs' = [runs EXCEPT ![o] = n],
         n.status = "running" => RunContent(n)'
  PROVE  RunsContent'
<1>1. runs \in [Operators -> Run] /\ OneAtATime
  BY DEF ContentInv, LiveInv, TypeInv, TypeOK
<1>2. \A p \in Operators : Running(p)' => p = o /\ runs'[p] = n
  BY <1>1 DEF OneAtATime, Running
<1> QED
  BY <1>2 DEF RunsContent, Running, RunContent

LEMMA StopContent ==
  ASSUME ContentInv, NEW o \in Operators, Running(o), Stop(o)
  PROVE  RunsContent'
<1>1. [IdleRun EXCEPT !.status = "failed"].status # "running"
  BY DEF IdleRun
<1> QED
  BY <1>1, OneRunContent DEF Stop

\* An advance that neither names, picks nor unpacks.
LEMMA AdvanceContent ==
  ASSUME ContentInv, NEW o \in Operators, Running(o), NEW h \in runs[o].todo,
         Advance(o, h),
         runs[o].at \notin {"newpath", "gunzip"},
         runs[o].cmd = "deploy" =>
           (db'[1].up => base'[runs[o].rel].edits <= db'[1].edits),
         runs[o].at \in BeforeDump => dump'[runs[o].rel].form = "none",
         runs[o].at \in {"drop", "import"} => releases' = releases
  PROVE  RunsContent'
<1> PICK n : n = Done(runs[o], h)
  OBVIOUS
<1>1. /\ n.cmd = runs[o].cmd /\ n.rel = runs[o].rel /\ n.last = runs[o].last
      /\ n.at = Done(runs[o], h).at
  BY ActiveRun, DoneType
<1>2. ASSUME n.status = "running" PROVE RunContent(n)'
  <2>1. Done(runs[o], h).status = "running"
    BY <1>2
  <2>2. runs[o].cmd = "deploy" => (db'[1].up => base'[n.rel].edits <= db'[1].edits)
    BY <1>1
  <2>3. runs[o].at \in {"newpath"} \cup BeforeDump => dump'[n.rel].form = "none"
    BY <1>1
  <2>4. runs[o].at \in {"gunzip", "drop", "import"} => IsNewest(n.last)'
    BY <1>1, ActiveRun DEF IsNewest, RunContent
  <2> HIDE DEF IsNewest
  <2> QED
    BY <1>1, <2>1, <2>2, <2>3, <2>4, StepKeepsRunContent
<1>3. runs' = [runs EXCEPT ![o] = n]
  BY DEF Advance, ContentInv, LiveInv, TypeInv, TypeOK
<1> QED
  BY <1>2, <1>3, OneRunContent

(***************************************************************************)
(* The steps that give no name, no dump and no database.                   *)
(***************************************************************************)
\* Nothing is forgotten: the site is down or holds what it held, or more.
NothingLost == /\ releases' = releases /\ dump' = dump /\ base' = base
               /\ db'[1].up => db[1].up /\ db[1].edits <= db'[1].edits

LEMMA QuietSite ==
  ASSUME ContentInv, TypeOK', NothingLost
  PROVE  SiteOk' /\ DumpsOk'
<1>1. /\ releases \in [Hosts -> SUBSET Ids] /\ DbHost \in Hosts
      /\ \A r \in Ids : base[r].edits \in Nat
      /\ db[1].edits \in Nat
  BY SiteTypes
<1>2. db'[1].edits \in Nat
  BY BoundAssumption, HostAssumption DEF TypeOK, Database, Sites
<1>3. SiteOk'
  BY <1>1, <1>2 DEF NothingLost, SiteOk, ContentInv
<1>4. DumpsOk'
  BY DEF NothingLost, DumpsOk, DumpOk, ContentInv
<1> QED
  BY <1>3, <1>4

LEMMA QuietRunsContent ==
  ASSUME ContentInv, TypeOK', NothingLost, runs' = runs
  PROVE  RunsContent'
<1> SUFFICES ASSUME NEW o \in Operators, Running(o)' PROVE RunContent(runs[o])'
  BY DEF RunsContent
<1>1. Running(o)
  BY DEF Running
<1>2. RunContent(runs[o]) /\ runs[o] \in Run
  BY <1>1, ActiveRun
<1>3. /\ \A r \in Ids : base[r].edits \in Nat
      /\ db[1].edits \in Nat
  BY SiteTypes
<1>4. db'[1].edits \in Nat
  BY BoundAssumption, HostAssumption DEF TypeOK, Database, Sites
<1>5. runs[o].cmd = "deploy" /\ runs[o].at # "newpath" => runs[o].rel \in Ids
  BY <1>1, ActiveRun, SiteTypes DEF RunLive
<1>6. runs[o].cmd = "deploy" /\ runs[o].at # "newpath" =>
        (db'[1].up => base'[runs[o].rel].edits <= db'[1].edits)
  BY <1>2, <1>3, <1>4, <1>5 DEF RunContent, NothingLost
<1> QED
  BY <1>2, <1>6 DEF RunContent, NothingLost, IsNewest

\* An advance that leaves the site as it is.
LEMMA QuietAdvance ==
  ASSUME ContentInv, NEW o \in Operators, Running(o), NEW h \in runs[o].todo,
         Advance(o, h), releases' = releases, dump' = dump, base' = base, db' = db,
         runs[o].at \notin {"newpath", "gunzip"}
  PROVE  RunsContent'
BY ActiveRun, AdvanceContent DEF RunContent

(***************************************************************************)
(* One lemma for each kind of step.                                        *)
(***************************************************************************)
LEMMA InitContent == Init => ContentInv
<1> SUFFICES ASSUME Init PROVE ContentInv
  OBVIOUS
<1>1. \A o \in Operators : ~Running(o)
  BY DEF Init, Running, IdleRun
<1>2. RunsContent
  BY <1>1 DEF RunsContent
<1>3. 1 \in Sites /\ DbHost \in Hosts /\ 1 \in Ids
  BY HostAssumption, BoundAssumption DEF Sites, Ids
<1>4. SiteOk
  BY <1>3 DEF Init, SiteOk
<1>5. DumpsOk
  BY DEF Init, DumpsOk, DumpOk, NoDump
<1> QED
  BY <1>2, <1>4, <1>5, InitLive DEF ContentInv

LEMMA StartContent ==
  ASSUME ContentInv, TakeTurns, TypeOK', NEW o \in Operators, NEW c \in Commands, Start(o, c)
  PROVE  SiteOk' /\ DumpsOk' /\ RunsContent'
<1>1. NothingLost
  BY SiteTypes DEF Start, NothingLost, diskVars, dataVars, nameVars
<1> PICK n : n = [cmd |-> c, at |-> First[c], todo |-> HostsOf(First[c]),
                  rel |-> NoId, last |-> NoId, status |-> "running"]
  OBVIOUS
<1>2. c \in {"deploy", "rollback"}
  BY CommandAssumption DEF TakeTurns, CommandNames
<1>3. n.cmd = c /\ n.at \in {"newpath", "pick"} /\ (c = "deploy" => n.at = "newpath")
  BY <1>2 DEF First
<1>4. RunContent(n)'
  BY <1>3 DEF RunContent, BeforeDump
<1>5. runs' = [runs EXCEPT ![o] = n] /\ \A p \in Operators : ~Running(p)
  BY DEF Start, TakeTurns
<1>6. runs \in [Operators -> Run]
  BY DEF ContentInv, LiveInv, TypeInv, TypeOK
<1>7. \A p \in Operators : Running(p)' => p = o /\ runs'[p] = n
  BY <1>5, <1>6 DEF Running
<1>8. RunsContent'
  BY <1>4, <1>7 DEF RunsContent, RunContent
<1> QED
  BY <1>1, <1>8, QuietSite

\* A release is named: its directory is not there, so it has no dump.
LEMMA NewPathContent ==
  ASSUME ContentInv, TypeOK', NEW o \in Operators, NewPath(o)
  PROVE  SiteOk' /\ DumpsOk' /\ RunsContent'
<1>1. /\ Running(o) /\ Deployer \in runs[o].todo /\ runs[o].at = "newpath"
      /\ releases' = releases /\ dump' = dump /\ db' = db
      /\ base' = [base EXCEPT ![lastId + 1] = [edits |-> db[1].edits, head |-> head]]
      /\ AdvanceTo(o, Deployer, lastId + 1)
  BY DEF NewPath, At, diskVars, dataVars
<1>2. lastId \in Nat /\ lastId + 1 \in Ids /\ Ids \subseteq Nat
  BY BoundAssumption, SiteTypes DEF NewPath, Ids
<1>3. \A r \in releases[DbHost] : r \in Ids /\ r <= lastId
  BY SiteTypes DEF ContentInv, LiveInv, NamesGiven
<1>4. \A r \in releases[DbHost] : base'[r] = base[r]
  <2>1. base \in [Ids -> [edits : 0..MaxEdits, head : Revs]]
    BY DEF ContentInv, LiveInv, TypeInv, TypeOK
  <2>2. \A r \in releases[DbHost] : r # lastId + 1
    BY <1>2, <1>3
  <2> QED
    BY <1>1, <1>3, <2>1, <2>2
<1>5. base'[lastId + 1].edits = db[1].edits
  BY <1>1, <1>2 DEF ContentInv, LiveInv, TypeInv, TypeOK
<1>6. dump[lastId + 1].form = "none"
  <2>1. lastId + 1 \notin releases[DbHost]
    BY <1>2, <1>3
  <2> QED
    BY <1>2, <2>1 DEF ContentInv, DumpsOk, DumpOk
<1>7. SiteOk'
  BY <1>1, <1>4 DEF ContentInv, SiteOk
<1>8. DumpsOk'
  BY <1>1, <1>4 DEF ContentInv, DumpsOk, DumpOk
<1>9. RunsContent'
  <2> DEFINE old == Done(runs[o], Deployer)
  <2> PICK n : n = [old EXCEPT !.rel = lastId + 1]
    OBVIOUS
  <2>1. /\ runs[o] \in Run /\ RunOk(runs[o]) /\ runs[o].status = "running"
    BY <1>1, ActiveRun
  <2>2. old \in Run /\ old.cmd = runs[o].cmd
    BY <1>1, <2>1, DoneType
  <2>3. /\ n.cmd = runs[o].cmd /\ n.rel = lastId + 1 /\ n.at = old.at
        /\ n.status = old.status
    BY <2>2 DEF Run
  <2>4. runs' = [runs EXCEPT ![o] = n]
    BY <1>1 DEF AdvanceTo, ContentInv, LiveInv, TypeInv, TypeOK
  <2> HIDE DEF old
  <2>5. base'[n.rel].edits <= db'[1].edits
    BY <1>1, <1>5, <2>3, SiteTypes
  <2>6. dump'[n.rel].form = "none"
    BY <1>1, <1>6, <2>3
  <2>7. ASSUME n.status = "running" PROVE RunContent(n)'
    BY <1>1, <2>3, <2>5, <2>6, <2>7, StepKeepsRunContent DEF old
  <2> QED
    BY <1>1, <2>4, <2>7, OneRunContent
<1> QED
  BY <1>7, <1>8, <1>9

LEMMA CopyContent ==
  ASSUME ContentInv, TypeOK', NEW o \in Operators, NEW h \in Hosts,
         Copy(o, h) \/ CopyBreaks(o, h)
  PROVE  SiteOk' /\ DumpsOk' /\ RunsContent'
<1>1. /\ Running(o) /\ h \in runs[o].todo /\ runs[o].at = "copy"
      /\ dump' = dump /\ db' = db /\ base' = base
      /\ releases' = [releases EXCEPT ![h] = @ \cup {runs[o].rel}]
  BY DEF Copy, CopyBreaks, At, PutRelease, dataVars, nameVars
<1>2. runs[o].cmd = "deploy" /\ runs[o].rel = lastId /\ dump[lastId].form = "none"
  <2>1. /\ RunOk(runs[o]) /\ RunLive(runs[o]) /\ RunContent(runs[o])
    BY <1>1, ActiveRun
  <2>2. runs[o].cmd = "deploy"
    BY <1>1, ActiveRun, DeployOnly
  <2>3. runs[o].rel = lastId
    BY <1>1, <2>1, <2>2 DEF RunLive
  <2> QED
    BY <1>1, <2>1, <2>2, <2>3 DEF RunContent, BeforeDump
<1>3. db[1].up => base[lastId].edits <= db[1].edits
  BY <1>1, <1>2, ActiveRun DEF RunContent
<1>4. /\ releases'[DbHost] \subseteq releases[DbHost] \cup {lastId}
      /\ releases[DbHost] \subseteq releases'[DbHost]
  BY <1>1, <1>2, SiteTypes
<1>5. SiteOk'
  BY <1>1, <1>3, <1>4 DEF ContentInv, SiteOk
<1>6. DumpsOk'
  <2> SUFFICES ASSUME NEW s \in Ids, dump[s].form # "none" PROVE DumpOk(s)'
    BY <1>1 DEF DumpsOk, DumpOk
  <2>1. s \in releases[DbHost] /\ \A r \in releases[DbHost] : r <= s => base[r].edits <= dump[s].edits
    BY DEF ContentInv, DumpsOk, DumpOk
  <2>2. s <= lastId /\ s # lastId /\ s \in Nat /\ lastId \in Nat
    BY <1>2, <2>1, SiteTypes DEF ContentInv, LiveInv, NamesGiven
  <2> QED
    BY <1>1, <1>4, <2>1, <2>2 DEF DumpOk
<1>7. RunsContent'
  <2>1. CASE CopyBreaks(o, h)
    BY <1>1, <2>1, StopContent DEF CopyBreaks
  <2>2. CASE Copy(o, h)
    BY <1>1, <1>2, <1>3, <2>2, AdvanceContent DEF Copy
  <2> QED
    BY <2>1, <2>2
<1> QED
  BY <1>5, <1>6, <1>7

\* A dump holds what the site holds, the newest release and all before it included.
LEMMA DumpContent ==
  ASSUME ContentInv, TypeOK', NEW o \in Operators, DumpTaken(o)
  PROVE  SiteOk' /\ DumpsOk' /\ RunsContent'
<1>1. /\ Running(o) /\ DbHost \in runs[o].todo /\ runs[o].at = "dump"
      /\ releases' = releases /\ db' = db /\ base' = base /\ Advance(o, DbHost)
      /\ dump' = [dump EXCEPT ![runs[o].rel] =
                     [form |-> "gz", schema |-> db[1].schema, edits |-> db[1].edits]]
      /\ db[1].up /\ runs[o].rel \in releases[DbHost]
  BY DEF DumpTaken, At, Bootstraps, SettingsWork, nameVars
<1>2. SiteOk'
  BY <1>1 DEF ContentInv, SiteOk
<1>3. DumpsOk'
  <2> SUFFICES ASSUME NEW s \in Ids PROVE DumpOk(s)'
    BY DEF DumpsOk
  <2>1. CASE s = runs[o].rel
    <3>1. dump'[s].edits = db[1].edits
      BY <1>1, <2>1, SiteTypes
    <3> QED
      BY <1>1, <2>1, <3>1 DEF DumpOk, SiteOk, ContentInv
  <2>2. CASE s # runs[o].rel
    BY <1>1, <2>2, SiteTypes DEF DumpOk, DumpsOk, ContentInv
  <2> QED
    BY <2>1, <2>2
<1>4. RunsContent'
  <2>1. runs[o].cmd = "deploy" => (db'[1].up => base'[runs[o].rel].edits <= db'[1].edits)
    BY <1>1, ActiveRun DEF RunContent
  <2> QED
    BY <1>1, <2>1, AdvanceContent DEF BeforeDump
<1> QED
  BY <1>2, <1>3, <1>4

LEMMA GunzipContent ==
  ASSUME ContentInv, TypeOK', NEW o \in Operators, Gunzip(o)
  PROVE  SiteOk' /\ DumpsOk' /\ RunsContent'
<1>1. PICK last \in Newest(releases[DbHost]) :
        /\ dump[last].form = "gz"
        /\ dump' = [dump EXCEPT ![last].form = "sql"]
        /\ runs' = [runs EXCEPT ![o] = [Done(@, DbHost) EXCEPT !.last = last]]
  BY DEF Gunzip
<1>2. /\ Running(o) /\ DbHost \in runs[o].todo /\ runs[o].at = "gunzip"
      /\ releases' = releases /\ db' = db /\ base' = base
  BY DEF Gunzip, At, nameVars
<1>3. \A s \in Ids : dump'[s].edits = dump[s].edits /\ (dump'[s].form # "none" => dump[s].form # "none")
  <2>1. dump \in [Ids -> Dump] /\ last \in Ids
    BY SiteTypes DEF Newest
  <2>2. \A s \in Ids : s # last => dump'[s] = dump[s]
    BY <1>1, <2>1
  <2>3. dump'[last].edits = dump[last].edits
    BY <1>1, <2>1 DEF Dump
  <2> QED
    BY <1>1, <2>1, <2>2, <2>3
<1>4. SiteOk'
  BY <1>2 DEF ContentInv, SiteOk
<1>5. DumpsOk'
  BY <1>2, <1>3 DEF ContentInv, DumpsOk, DumpOk
<1>6. RunsContent'
  <2> DEFINE old == Done(runs[o], DbHost)
  <2> PICK n : n = [old EXCEPT !.last = last]
    OBVIOUS
  <2>1. /\ runs[o] \in Run /\ RunOk(runs[o]) /\ runs[o].status = "running"
    BY <1>2, ActiveRun
  <2>2. old \in Run /\ old.cmd = runs[o].cmd /\ old.rel = runs[o].rel
    BY <1>2, <2>1, DoneType
  <2>3. /\ n.cmd = runs[o].cmd /\ n.rel = runs[o].rel /\ n.at = old.at
        /\ n.status = old.status /\ n.last = last
    BY <2>2 DEF Run
  <2>4. runs' = [runs EXCEPT ![o] = n]
    BY <1>1 DEF ContentInv, LiveInv, TypeInv, TypeOK
  <2> HIDE DEF old
  <2>5. runs[o].cmd = "deploy" => (db'[1].up => base'[n.rel].edits <= db'[1].edits)
    BY <1>2, <2>3, ActiveRun DEF RunContent
  <2>6. IsNewest(n.last)'
    BY <1>1, <1>2, <2>3 DEF IsNewest, Newest
  <2>7. runs[o].at \notin {"newpath"} \cup BeforeDump
    BY <1>2 DEF BeforeDump
  <2>8. ASSUME n.status = "running" PROVE RunContent(n)'
    BY <1>2, <2>3, <2>5, <2>6, <2>7, <2>8, StepKeepsRunContent DEF old
  <2> QED
    BY <1>2, <2>4, <2>8, OneRunContent
<1> QED
  BY <1>4, <1>5, <1>6

\* The tables are dropped, or come from the dump of the newest release.
LEMMA RestoreContent ==
  ASSUME ContentInv, TypeOK', NEW o \in Operators, DropTables(o) \/ Import(o)
  PROVE  SiteOk' /\ DumpsOk' /\ RunsContent'
<1>1. /\ Running(o) /\ DbHost \in runs[o].todo /\ runs[o].at \in {"drop", "import"}
      /\ releases' = releases /\ dump' = dump /\ base' = base /\ Advance(o, DbHost)
  BY DEF DropTables, Import, At, diskVars, nameVars
<1>2. runs[o].cmd # "deploy"
  BY <1>1, ActiveRun DEF After
<1>3. SiteOk'
  <2>1. CASE DropTables(o)
    <3>1. ~db'[1].up
      BY <2>1, SiteTypes DEF DropTables
    <3> QED
      BY <3>1 DEF SiteOk
  <2>2. CASE Import(o)
    <3> DEFINE last == runs[o].last
    <3>1. runs[o].at = "import" /\ dump[last].form = "sql"
      BY <2>2 DEF Import, At
    <3>2. last \in releases[DbHost] /\ \A s \in releases[DbHost] : s <= last
      BY <1>1, <3>1, ActiveRun DEF RunContent, IsNewest
    <3>3. \A r \in releases[DbHost] : base[r].edits <= dump[last].edits
      BY <3>1, <3>2, SiteTypes DEF ContentInv, DumpsOk, DumpOk
    <3>4. db'[1].edits = dump[last].edits
      BY <2>2, SiteTypes DEF Import
    <3> QED
      BY <1>1, <3>3, <3>4 DEF SiteOk
  <2> QED
    BY <2>1, <2>2
<1>4. DumpsOk'
  BY <1>1 DEF ContentInv, DumpsOk, DumpOk
<1>5. RunsContent'
  <2>1. runs[o].at \notin BeforeDump
    BY <1>1 DEF BeforeDump
  <2> QED
    BY <1>1, <1>2, <2>1, AdvanceContent
<1> QED
  BY <1>3, <1>4, <1>5

\* A release is deleted, and its dump with it.
LEMMA DeleteContent ==
  ASSUME ContentInv, TypeOK', NEW o \in Operators, NEW h \in Hosts,
         Cleanup(o, h) \/ Archive(o, h)
  PROVE  SiteOk' /\ DumpsOk' /\ RunsContent'
<1>1. /\ Running(o) /\ h \in runs[o].todo /\ runs[o].at \in {"cleanup", "archive"}
      /\ db' = db /\ base' = base /\ Advance(o, h)
  BY DEF Cleanup, Archive, At, nameVars
<1>2. PICK gone : Remove(h, gone)
  BY DEF Cleanup, Archive
<1>3. /\ releases' = [releases EXCEPT ![h] = @ \ gone]
      /\ dump' = IF h = DbHost
                 THEN [r \in Ids |-> IF r \in gone THEN NoDump ELSE dump[r]] ELSE dump
  BY <1>2 DEF Remove
<1>4. releases'[DbHost] = IF h = DbHost THEN releases[DbHost] \ gone ELSE releases[DbHost]
  BY <1>3, SiteTypes
<1>5. SiteOk'
  BY <1>1, <1>4 DEF ContentInv, SiteOk
<1>6. DumpsOk'
  <2> SUFFICES ASSUME NEW s \in Ids, dump'[s].form # "none" PROVE DumpOk(s)'
    BY DEF DumpsOk, DumpOk
  <2>1. dump'[s] = dump[s] /\ (h = DbHost => s \notin gone)
    BY <1>3 DEF NoDump
  <2>2. s \in releases[DbHost] /\ \A r \in releases[DbHost] : r <= s => base[r].edits <= dump[s].edits
    BY <2>1 DEF ContentInv, DumpsOk, DumpOk
  <2> QED
    BY <1>1, <1>4, <2>1, <2>2 DEF DumpOk
<1>7. RunsContent'
  <2>1. runs[o].cmd = "deploy" => (db'[1].up => base'[runs[o].rel].edits <= db'[1].edits)
    BY <1>1, ActiveRun DEF RunContent
  <2>2. runs[o].at \notin BeforeDump
    BY <1>1 DEF BeforeDump
  <2> QED
    BY <1>1, <2>1, <2>2, AdvanceContent
<1> QED
  BY <1>5, <1>6, <1>7

\* Update hooks and editors leave what the site holds, or add to it.
LEMMA EditContent ==
  ASSUME ContentInv, TypeOK', NEW s \in Sites,
         Edit(s) \/ \E o \in Operators : UpdateHook(o, s)
  PROVE  SiteOk' /\ DumpsOk' /\ RunsContent'
<1>1. /\ releases' = releases /\ dump' = dump /\ base' = base /\ runs' = runs
      /\ \/ db' = [db EXCEPT ![s].edits = @ + 1]
         \/ db' = [db EXCEPT ![s].schema = @ + 1]
  BY DEF Edit, UpdateHook, diskVars, nameVars
<1>2. db'[1].up = db[1].up /\ db[1].edits <= db'[1].edits
  <2>1. db \in [Sites -> Database] /\ 1 \in Sites /\ db[1].edits \in Nat
    BY SiteTypes
  <2>2. CASE s # 1
    BY <1>1, <2>1, <2>2
  <2>3. CASE s = 1
    BY <1>1, <2>1, <2>3 DEF Database
  <2> QED
    BY <2>2, <2>3
<1>3. NothingLost
  BY <1>1, <1>2 DEF NothingLost
<1> QED
  BY <1>1, <1>3, QuietSite, QuietRunsContent

LEMMA QuietHostSteps ==
  ASSUME ContentInv, TypeOK', NEW o \in Operators, NEW h \in Hosts,
         \/ Rsync(o, h) \/ Aliases(o, h) \/ Link(o, h) \/ RemoveWeb(o, h)
         \/ LinkWeb(o, h) \/ Settings(o, h) \/ Ban(o, h)
  PROVE  SiteOk' /\ DumpsOk' /\ RunsContent'
<1>1. releases' = releases /\ dump' = dump /\ base' = base /\ db' = db
  BY DEF Rsync, Aliases, Link, RemoveWeb, LinkWeb, Settings, Ban,
         diskVars, dataVars, nameVars
<1>2. NothingLost
  BY <1>1, SiteTypes DEF NothingLost
<1>3. RunsContent'
  <2>1. CASE Rsync(o, h) \/ Aliases(o, h) \/ Link(o, h) \/ LinkWeb(o, h) \/ Ban(o, h)
    BY <1>1, <2>1, QuietAdvance DEF Rsync, Aliases, Link, LinkWeb, Ban, At
  <2>2. CASE RemoveWeb(o, h)
    BY <1>2, <2>2, QuietRunsContent DEF RemoveWeb
  <2>3. CASE Settings(o, h)
    BY <1>1, <2>3, QuietAdvance, StopContent DEF Settings, At
  <2> QED
    BY <2>1, <2>2, <2>3
<1> QED
  BY <1>2, <1>3, QuietSite

LEMMA QuietRunSteps ==
  ASSUME ContentInv, TypeOK', NEW o \in Operators,
         \/ Stage(o) \/ Build(o) \/ DumpSkipped(o) \/ UpdatesDone(o)
         \/ Refuse(o) \/ Abort(o)
  PROVE  SiteOk' /\ DumpsOk' /\ RunsContent'
<1>1. releases' = releases /\ dump' = dump /\ base' = base /\ db' = db
  BY DEF Stage, Build, DumpSkipped, UpdatesDone, Refuse, Abort,
         diskVars, dataVars, nameVars
<1>2. NothingLost
  BY <1>1, SiteTypes DEF NothingLost
<1>3. RunsContent'
  <2>1. CASE Stage(o) \/ Build(o) \/ DumpSkipped(o) \/ UpdatesDone(o)
    BY <1>1, <2>1, QuietAdvance DEF Stage, Build, DumpSkipped, UpdatesDone, CanUpdate, At
  <2>2. CASE Refuse(o) \/ Abort(o)
    BY <2>2, StopContent DEF Refuse, Abort
  <2> QED
    BY <2>1, <2>2
<1> QED
  BY <1>2, <1>3, QuietSite

LEMMA PickContent ==
  ASSUME ContentInv, TypeOK', NEW o \in Operators, NEW h \in Hosts, Pick(o, h)
  PROVE  SiteOk' /\ DumpsOk' /\ RunsContent'
<1>1. /\ Running(o) /\ h \in runs[o].todo /\ runs[o].at = "pick"
      /\ releases' = releases /\ dump' = dump /\ base' = base /\ db' = db
  BY DEF Pick, At, diskVars, dataVars, nameVars
<1>2. NothingLost
  BY <1>1, SiteTypes DEF NothingLost
<1>3. runs[o].cmd = "rollback"
  BY <1>1, ActiveRun DEF After
<1>4. PICK r \in releases[h] : AdvanceTo(o, h, r)
  BY DEF Pick
<1>5. RunsContent'
  <2> DEFINE old == Done(runs[o], h)
  <2> PICK n : n = [old EXCEPT !.rel = r]
    OBVIOUS
  <2>1. /\ runs[o] \in Run /\ RunOk(runs[o]) /\ runs[o].status = "running"
    BY <1>1, ActiveRun
  <2>2. old \in Run /\ old.cmd = runs[o].cmd
    BY <1>1, <2>1, DoneType
  <2>3. n.cmd = runs[o].cmd /\ n.at = old.at /\ n.status = old.status
    BY <2>2 DEF Run
  <2>4. runs' = [runs EXCEPT ![o] = n]
    BY <1>4 DEF AdvanceTo, ContentInv, LiveInv, TypeInv, TypeOK
  <2> HIDE DEF old
  <2>5. runs[o].at \notin {"newpath", "gunzip", "drop", "import"} \cup BeforeDump
    BY <1>1 DEF BeforeDump
  <2>6. ASSUME n.status = "running" PROVE RunContent(n)'
    BY <1>1, <1>3, <2>3, <2>5, <2>6, StepKeepsRunContent DEF old
  <2> QED
    BY <1>1, <2>4, <2>6, OneRunContent
<1> QED
  BY <1>2, <1>5, QuietSite

LEMMA ContentStep == ContentInv /\ TakeTurns /\ [Next]_vars => ContentInv'
<1> SUFFICES ASSUME ContentInv, TakeTurns, [Next]_vars
             PROVE  SiteOk' /\ DumpsOk' /\ RunsContent'
  BY LiveStep DEF ContentInv
<1>1. TypeOK'
  BY LiveStep DEF ContentInv, LiveInv, TypeInv
<1>2. ASSUME NEW o \in Operators, NEW c \in Commands, Start(o, c)
      PROVE  SiteOk' /\ DumpsOk' /\ RunsContent'
  BY <1>1, <1>2, StartContent
<1>3. ASSUME NEW o \in Operators, LocalStep(o)
      PROVE  SiteOk' /\ DumpsOk' /\ RunsContent'
  BY <1>1, <1>3, NewPathContent, QuietRunSteps DEF LocalStep
<1>4. ASSUME NEW o \in Operators, DbStep(o)
      PROVE  SiteOk' /\ DumpsOk' /\ RunsContent'
  BY <1>1, <1>4, DumpContent, GunzipContent, RestoreContent, EditContent, QuietRunSteps
  DEF DbStep
<1>5. ASSUME NEW o \in Operators, NEW h \in Hosts, HostStep(o, h)
      PROVE  SiteOk' /\ DumpsOk' /\ RunsContent'
  BY <1>1, <1>5, CopyContent, DeleteContent, PickContent, QuietHostSteps DEF HostStep
<1>6. ASSUME NEW o \in Operators, Refuse(o) \/ Abort(o)
      PROVE  SiteOk' /\ DumpsOk' /\ RunsContent'
  BY <1>1, <1>6, QuietRunSteps
<1>7. ASSUME NEW s \in Sites, Edit(s)
      PROVE  SiteOk' /\ DumpsOk' /\ RunsContent'
  BY <1>1, <1>7, EditContent
<1>8. ASSUME Push \/ (\E v \in VarnishHosts : View(v)) \/ UNCHANGED vars
      PROVE  SiteOk' /\ DumpsOk' /\ RunsContent'
  <2>1. NothingLost /\ runs' = runs
    BY <1>8, SiteTypes DEF Push, View, NothingLost, vars, diskVars, dataVars, nameVars
  <2> QED
    BY <1>1, <2>1, QuietSite, QuietRunsContent
<1> QED
  BY <1>2, <1>3, <1>4, <1>5, <1>6, <1>7, <1>8 DEF Next, Step

\* Whatever is restored, the site holds what it held when the newest release was
\* named: for any hosts, faults and bounds, when operators take turns, no sequence of
\* deploys, rollbacks and failures makes revert_database import an older dump.
THEOREM ContentSafe ==
  ASSUME TakeTurns
  PROVE  Spec => []ContentKept
<1>1. ContentInv => ContentKept
  BY SiteTypes DEF ContentInv, SiteOk, ContentKept, Newest
<1>2. ContentInv /\ [Next]_vars => ContentInv'
  BY ContentStep
<1> QED
  BY <1>1, <1>2, InitContent, PTL DEF Spec
=============================================================================
