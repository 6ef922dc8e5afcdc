----------------------------- MODULE Deployment -----------------------------
(***************************************************************************)
(* Deploying a Drupal site with the Capistrano and Rake code of this       *)
(* repository: releases are built on the operator's machine, pushed to the *)
(* hosts with rsync, backed up, linked live, updated and cleaned up.       *)
(*                                                                         *)
(* A command is a run: it goes through the steps of DeployPlans in order,  *)
(* and a step is done by every host that has the step's role, in any       *)
(* order.  While runs advance, the team pushes commits, editors change the *)
(* site and visitors fill Varnish.  The first release was put there by     *)
(* "cap <stage> deploy:install".                                           *)
(*                                                                         *)
(* The state of the hosts:                                                 *)
(*   releases, code   the directories in releases_path, and what each holds*)
(*   newer            for each release, those whose directory was touched  *)
(*                    since it was (what "ls -t" sorts by)                 *)
(*   current, webroot the release "current" names; the web root link exists*)
(*   linked           releases whose settings.php is the link to the       *)
(*                    stage's settings file                                *)
(*   cache            the tree in shared/deploy                            *)
(*   db, dump         the database of each site; the dump in each release  *)
(*   pages            the releases whose pages a host's Varnish holds      *)
(* On the operator's machine: staged, the tree in tmp/deploy; head is the  *)
(* branch on the git server.  runs is what each operator is doing; lastId  *)
(* is the clock release names are taken from, and base, a history          *)
(* variable, the edits of site 1 and the branch when a release was named.  *)
(***************************************************************************)
EXTENDS Naturals, FiniteSets, DeployPlans

CONSTANTS
  Hosts,         \* the servers of a stage file: roles(:all)
  AppHosts,      \* roles(:app)
  WebHosts,      \* roles(:web)
  DbHost,        \* roles(:db), one server in every stage file
  NumSites,      \* the length of :site_url; site 1 is fetch(:site_url)[0]
  Deployer,      \* the machine cap runs on
  Operators,     \* people and Jenkins jobs that run cap
  Commands,      \* the commands they run
  KeepReleases,  \* :keep_releases
  OwnRevs,       \* revisions whose own settings.php reaches the database
  StageRevs,     \* revisions that ship settings.<stage>.php
  VarnishHosts,  \* hosts that run Varnish
  SecretHosts,   \* those on which /etc/varnish/secret is readable
  Faults,        \* kinds of failure that may happen, see FaultKinds
  Serialised,    \* TRUE: operators never run cap at the same time
  MaxReleases,   \* bound: releases ever named
  MaxRev,        \* bound: commits pushed
  MaxEdits       \* bound: edits of the site

\* "abort": a remote command fails.  The others go unnoticed, because their
\* exit status is dropped: "git", "build" (npm and grunt), "push" (rsync to a
\* host).  "copy": the remote copy fails after it created the directory.
FaultKinds == {"abort", "git", "build", "push", "copy"}

ASSUME HostAssumption ==
  /\ AppHosts \subseteq Hosts /\ AppHosts # {}
  /\ WebHosts \subseteq Hosts /\ WebHosts # {}
  /\ DbHost \in Hosts
  /\ NumSites \in Nat \ {0}
  /\ Deployer \notin Hosts
  /\ VarnishHosts \subseteq Hosts /\ SecretHosts \subseteq Hosts
ASSUME CommandAssumption == Commands \subseteq CommandNames
ASSUME KeepAssumption == KeepReleases \in Nat \ {0}
ASSUME BoundAssumption ==
  /\ MaxReleases \in Nat \ {0} /\ MaxRev \in Nat /\ MaxEdits \in Nat
  /\ Serialised \in BOOLEAN /\ Faults \subseteq FaultKinds

Ids == 1..MaxReleases
NoId == 0
Revs == 0..MaxRev
Sites == 1..NumSites

\* A tree of source files: the commit checked out, the commit its built files
\* (grunt build) come from, whether every file is there, and whether what is
\* there includes the settings and enough code for Drush to bootstrap.
Tree == [src : Revs, built : Revs, whole : BOOLEAN, boots : BOOLEAN]
FirstTree == [src |-> 0, built |-> 0, whole |-> TRUE, boots |-> TRUE]
NoTree == [src |-> 0, built |-> 0, whole |-> FALSE, boots |-> FALSE]
Torn == {NoTree, [NoTree EXCEPT !.boots = TRUE]}

\* A site's database: up unless its tables were dropped; the newest update hook
\* run; the edits it holds.  A dump is a file and the content it was taken of.
Database == [up : BOOLEAN, schema : Revs, edits : 0..MaxEdits]
Dump == [form : {"none", "gz", "sql"}, schema : Revs, edits : 0..MaxEdits]
NoDump == [form |-> "none", schema |-> 0, edits |-> 0]

Run == [cmd : CommandNames,
        at : StepNames \cup {"end"},            \* the step it is doing
        todo : SUBSET (Hosts \cup {Deployer}),  \* the hosts still to do it
        rel : Ids \cup {NoId},                  \* release_path
        last : Ids \cup {NoId},                 \* last_release
        status : {"idle", "running", "ok", "failed"}]
IdleRun == [cmd |-> "cleanup", at |-> "end", todo |-> {}, rel |-> NoId,
            last |-> NoId, status |-> "idle"]

VARIABLES releases, code, newer, current, webroot, linked, cache,
          db, dump, pages, staged, head, runs, lastId, base

diskVars == <<releases, code, newer, current, webroot, linked>>
sourceVars == <<staged, head, cache>>
dataVars == <<db, dump>>
nameVars == <<lastId, base>>
vars == <<diskVars, sourceVars, dataVars, nameVars, pages, runs>>

Init ==
  /\ releases = [h \in Hosts |-> {1}]
  /\ code = [h \in Hosts |-> [r \in Ids |-> IF r = 1 THEN FirstTree ELSE NoTree]]
  /\ newer = [h \in Hosts |-> [r \in Ids |-> {}]]
  /\ current = [h \in Hosts |-> 1]
  /\ webroot = [h \in Hosts |-> h \in AppHosts]
  /\ linked = [h \in Hosts |-> IF h \in AppHosts THEN {1} ELSE {}]
  /\ cache = [h \in Hosts |-> FirstTree]
  /\ db = [s \in Sites |-> [up |-> TRUE, schema |-> 0, edits |-> 0]]
  /\ dump = [r \in Ids |-> NoDump]
  /\ pages = [h \in Hosts |-> {}]
  /\ staged = FirstTree
  /\ head = 0
  /\ runs = [o \in Operators |-> IdleRun]
  /\ lastId = 1
  /\ base = [r \in Ids |-> [edits |-> 0, head |-> 0]]

(***************************************************************************)
(* Runs.                                                                   *)
(***************************************************************************)
Running(o) == runs[o].status = "running"

\* Mutant: "current" is linked on the primary server only.
HostsOfPrimary(step) ==
  CASE step \in {"newpath", "stage", "build"} -> {Deployer}
    [] step \in {"rsync", "copy", "aliases", "cleanup", "pick", "archive"} -> Hosts
    [] step \in {"dump", "link", "updatedb", "gunzip", "drop", "import"} -> {DbHost}
    [] step \in {"web", "settings"} -> AppHosts
    [] step = "ban" -> WebHosts
    [] OTHER -> {}

\* The role in "on roles(...)" of each step.
HostsOf(step) ==
  CASE step \in {"newpath", "stage", "build"} -> {Deployer}
    [] step \in {"rsync", "copy", "aliases", "link", "cleanup", "pick", "archive"} -> Hosts
    [] step \in {"dump", "updatedb", "gunzip", "drop", "import"} -> {DbHost}
    [] step \in {"web", "settings"} -> AppHosts
    [] step = "ban" -> WebHosts
    [] OTHER -> {}

\* Host h of o's run has this step to do.
At(o, step, h) == /\ Running(o)
                  /\ runs[o].at = step
                  /\ h \in runs[o].todo

\* The run once h has done its step: when no host is left, the next step.
Done(run, h) ==
  LET left == run.todo \ {h}
      next == After[run.cmd][run.at]
  IN  IF left # {} THEN [run EXCEPT !.todo = left]
      ELSE [run EXCEPT !.at = next, !.todo = HostsOf(next),
                       !.status = IF next = "end" THEN "ok" ELSE "running"]

Advance(o, h) == runs' = [runs EXCEPT ![o] = Done(@, h)]
AdvanceTo(o, h, r) == runs' = [runs EXCEPT ![o] = [Done(@, h) EXCEPT !.rel = r]]
Stop(o) == runs' = [runs EXCEPT ![o] = [IdleRun EXCEPT !.status = "failed"]]

Start(o, c) ==
  /\ ~Running(o)
  /\ Serialised => \A p \in Operators : ~Running(p)
  /\ c = "deploy" => lastId < MaxReleases
  /\ runs' = [runs EXCEPT ![o] = [cmd |-> c, at |-> First[c], todo |-> HostsOf(First[c]),
                                  rel |-> NoId, last |-> NoId, status |-> "running"]]
  /\ UNCHANGED <<diskVars, sourceVars, dataVars, nameVars, pages>>

(***************************************************************************)
(* Building and pushing a release.                                         *)
(***************************************************************************)
\* Mutant: the name is taken from the clock twice.
NewPathSkips(o) ==
  /\ At(o, "newpath", Deployer)
  /\ lastId' = lastId + 2
  /\ base' = [base EXCEPT ![lastId + 1] = [edits |-> db[1].edits, head |-> head]]
  /\ AdvanceTo(o, Deployer, lastId + 1)
  /\ UNCHANGED <<diskVars, sourceVars, dataVars, pages>>

NewPath(o) ==
  /\ At(o, "newpath", Deployer)
  /\ lastId < MaxReleases
  /\ lastId' = lastId + 1
  /\ base' = [base EXCEPT ![lastId + 1] = [edits |-> db[1].edits, head |-> head]]
  /\ AdvanceTo(o, Deployer, lastId + 1)
  /\ UNCHANGED <<diskVars, sourceVars, dataVars, pages>>

\* git fetch and git reset --hard: built files are ignored by git and stay.
Stage(o) ==
  /\ At(o, "stage", Deployer)
  /\ \/ staged' = [staged EXCEPT !.src = head]
     \/ "git" \in Faults /\ UNCHANGED staged
  /\ Advance(o, Deployer)
  /\ UNCHANGED <<diskVars, head, cache, dataVars, nameVars, pages>>

Build(o) ==
  /\ At(o, "build", Deployer)
  /\ \/ staged' = [staged EXCEPT !.built = staged.src]
     \/ "build" \in Faults /\ UNCHANGED staged
  /\ Advance(o, Deployer)
  /\ UNCHANGED <<diskVars, head, cache, dataVars, nameVars, pages>>

\* A push that breaks off leaves the cache as it was, or some files of each.
Rsync(o, h) ==
  /\ At(o, "rsync", h)
  /\ \/ cache' = [cache EXCEPT ![h] = staged]
     \/ "push" \in Faults /\ UNCHANGED cache
     \/ "push" \in Faults /\ \E tree \in Torn : cache' = [cache EXCEPT ![h] = tree]
  /\ Advance(o, h)
  /\ UNCHANGED <<diskVars, staged, head, dataVars, nameVars, pages>>

\* Release r of host h becomes the one touched last.
Touch(h, r) ==
  newer' = [newer EXCEPT ![h] = [s \in Ids |->
              IF s = r THEN {} ELSE IF s \in releases[h] THEN newer[h][s] \cup {r}
              ELSE {}]]

\* The directory is dated by the REVISION file Capistrano writes behind the copy.
PutRelease(h, r, tree) ==
  /\ releases' = [releases EXCEPT ![h] = @ \cup {r}]
  /\ code' = [code EXCEPT ![h][r] = tree]
  /\ Touch(h, r)

Copy(o, h) ==
  /\ At(o, "copy", h)
  /\ PutRelease(h, runs[o].rel, cache[h])
  /\ Advance(o, h)
  /\ UNCHANGED <<current, webroot, linked, sourceVars, dataVars, nameVars, pages>>

\* Mutant: the exit status of the copy is dropped, as that of the push is.
CopyBreaksUnseen(o, h) ==
  /\ "copy" \in Faults
  /\ At(o, "copy", h)
  /\ \E tree \in Torn : PutRelease(h, runs[o].rel, tree)
  /\ Advance(o, h)
  /\ UNCHANGED <<current, webroot, linked, sourceVars, dataVars, nameVars, pages>>

CopyBreaks(o, h) ==
  /\ "copy" \in Faults
  /\ At(o, "copy", h)
  /\ \E tree \in Torn : PutRelease(h, runs[o].rel, tree)
  /\ Stop(o)
  /\ UNCHANGED <<current, webroot, linked, sourceVars, dataVars, nameVars, pages>>

(***************************************************************************)
(* The database: backup, restore, update.                                  *)
(***************************************************************************)
\* The live release has settings.<stage>.php.
HasStageFile(h) == code[h][current[h]].boots /\ code[h][current[h]].src \in StageRevs

\* Drush reaches the database from release r of host h: its settings.php is
\* the one it was shipped with until the stage's file is linked over it, and
\* that link goes through "current".
SettingsWork(h, r) ==
  /\ r \in releases[h]
  /\ code[h][r].boots
  /\ IF r \in linked[h] THEN HasStageFile(h) ELSE code[h][r].src \in OwnRevs

Bootstraps(r) == db[1].up /\ SettingsWork(DbHost, r)

\* Only the first site's database is dumped and restored.
DumpTaken(o) ==
  /\ At(o, "dump", DbHost)
  /\ dump[runs[o].rel].form # "gz"
  /\ Bootstraps(runs[o].rel)
  /\ SettingsWork(DbHost, current[DbHost])
  /\ dump' = [dump EXCEPT ![runs[o].rel] =
                [form |-> "gz", schema |-> db[1].schema, edits |-> db[1].edits]]
  /\ Touch(DbHost, runs[o].rel)
  /\ Advance(o, DbHost)
  /\ UNCHANGED <<releases, code, current, webroot, linked, sourceVars, db, nameVars, pages>>

\* Mutant: the test for an earlier dump looks in current_path.
DumpSkippedByCurrent(o) ==
  /\ At(o, "dump", DbHost)
  /\ \/ dump[current[DbHost]].form = "gz"
     \/ runs[o].rel \in releases[DbHost] /\ ~Bootstraps(runs[o].rel)
  /\ Advance(o, DbHost)
  /\ UNCHANGED <<diskVars, sourceVars, dataVars, nameVars, pages>>

\* There is a dump already, or Drush does not reach the site: no backup, no error.
DumpSkipped(o) ==
  /\ At(o, "dump", DbHost)
  /\ \/ dump[runs[o].rel].form = "gz"
     \/ runs[o].rel \in releases[DbHost] /\ ~Bootstraps(runs[o].rel)
  /\ Advance(o, DbHost)
  /\ UNCHANGED <<diskVars, sourceVars, dataVars, nameVars, pages>>

\* The release with the newest name in S: the first of "ls -xr".
Newest(S) == {r \in S : \A s \in S : s <= r}

\* Mutant: the dump of the release rolled back to, as capistrano/wordpress.rb does.
GunzipTarget(o) ==
  /\ At(o, "gunzip", DbHost)
  /\ LET last == runs[o].rel
     IN  /\ dump[last].form = "gz"
         /\ dump' = [dump EXCEPT ![last].form = "sql"]
         /\ Touch(DbHost, last)
         /\ runs' = [runs EXCEPT ![o] = [Done(@, DbHost) EXCEPT !.last = last]]
  /\ UNCHANGED <<releases, code, current, webroot, linked, sourceVars, db, nameVars, pages>>

\* revert_database takes the release with the newest name, whatever is current.
Gunzip(o) ==
  /\ At(o, "gunzip", DbHost)
  /\ \E last \in Newest(releases[DbHost]) :
       /\ dump[last].form = "gz"
       /\ dump' = [dump EXCEPT ![last].form = "sql"]
       /\ Touch(DbHost, last)
       /\ runs' = [runs EXCEPT ![o] = [Done(@, DbHost) EXCEPT !.last = last]]
  /\ UNCHANGED <<releases, code, current, webroot, linked, sourceVars, db, nameVars, pages>>

DropTables(o) ==
  /\ At(o, "drop", DbHost)
  /\ SettingsWork(DbHost, runs[o].last)
  /\ db' = [db EXCEPT ![1] = [up |-> FALSE, schema |-> 0, edits |-> 0]]
  /\ Advance(o, DbHost)
  /\ UNCHANGED <<diskVars, sourceVars, dump, nameVars, pages>>

Import(o) ==
  /\ At(o, "import", DbHost)
  /\ dump[runs[o].last].form = "sql"
  /\ db' = [db EXCEPT ![1] = [up |-> TRUE, schema |-> dump[runs[o].last].schema,
                              edits |-> dump[runs[o].last].edits]]
  /\ Advance(o, DbHost)
  /\ UNCHANGED <<diskVars, sourceVars, dump, nameVars, pages>>

CanUpdate(o) ==
  /\ At(o, "updatedb", DbHost)
  /\ runs[o].rel \in releases[DbHost]
  /\ Bootstraps(current[DbHost])

\* The sites whose database is behind the live code; drush updatedb takes the
\* sites in the order of :site_url and runs one update hook after the other.
Behind == {s \in Sites : db[s].schema < code[DbHost][current[DbHost]].src}

\* Mutant: the last pending hook is left out.
UpdateHookShort(o, s) ==
  /\ CanUpdate(o)
  /\ s \in Behind /\ \A t \in Behind : s <= t
  /\ db[s].schema + 1 < code[DbHost][current[DbHost]].src
  /\ db' = [db EXCEPT ![s].schema = @ + 1]
  /\ UNCHANGED <<diskVars, sourceVars, dump, nameVars, pages, runs>>

UpdateHook(o, s) ==
  /\ CanUpdate(o)
  /\ s \in Behind /\ \A t \in Behind : s <= t
  /\ db' = [db EXCEPT ![s].schema = @ + 1]
  /\ UNCHANGED <<diskVars, sourceVars, dump, nameVars, pages, runs>>

UpdatesDone(o) ==
  /\ CanUpdate(o)
  /\ Behind = {}
  /\ Advance(o, DbHost)
  /\ UNCHANGED <<diskVars, sourceVars, dataVars, nameVars, pages>>

(***************************************************************************)
(* Publishing.                                                             *)
(***************************************************************************)
\* Copying the Drush aliases needs the release directory on every host.
Aliases(o, h) ==
  /\ At(o, "aliases", h)
  /\ runs[o].rel \in releases[h]
  /\ Advance(o, h)
  /\ UNCHANGED <<diskVars, sourceVars, dataVars, nameVars, pages>>

\* Mutant: "current" is only moved to a newer name.
LinkNewer(o, h) ==
  /\ At(o, "link", h)
  /\ current' = IF runs[o].rel > current[h]
                THEN [current EXCEPT ![h] = runs[o].rel] ELSE current
  /\ Advance(o, h)
  /\ UNCHANGED <<releases, code, newer, webroot, linked, sourceVars, dataVars, nameVars, pages>>

Link(o, h) ==
  /\ At(o, "link", h)
  /\ current' = [current EXCEPT ![h] = runs[o].rel]
  /\ Advance(o, h)
  /\ UNCHANGED <<releases, code, newer, webroot, linked, sourceVars, dataVars, nameVars, pages>>

\* The task removes the link, then makes it; a removed link needs no removing.
RemoveWeb(o, h) ==
  /\ At(o, "web", h)
  /\ webroot[h]
  /\ webroot' = [webroot EXCEPT ![h] = FALSE]
  /\ UNCHANGED <<releases, code, newer, current, linked, sourceVars, dataVars, nameVars, pages, runs>>

LinkWeb(o, h) ==
  /\ At(o, "web", h)
  /\ ~webroot[h]
  /\ webroot' = [webroot EXCEPT ![h] = TRUE]
  /\ Advance(o, h)
  /\ UNCHANGED <<releases, code, newer, current, linked, sourceVars, dataVars, nameVars, pages>>

\* The link is made before chmod notices that the stage's file is missing.
Settings(o, h) ==
  /\ At(o, "settings", h)
  /\ linked' = [linked EXCEPT ![h] = @ \cup {current[h]}]
  /\ IF HasStageFile(h) THEN Advance(o, h) ELSE Stop(o)
  /\ UNCHANGED <<releases, code, newer, current, webroot, sourceVars, dataVars, nameVars, pages>>

Ban(o, h) ==
  /\ At(o, "ban", h)
  /\ pages' = IF h \in SecretHosts THEN [pages EXCEPT ![h] = {}] ELSE pages
  /\ Advance(o, h)
  /\ UNCHANGED <<diskVars, sourceVars, dataVars, nameVars>>

(***************************************************************************)
(* Deleting releases.                                                      *)
(***************************************************************************)
\* rm -rf on host h; the dumps live in the release directories of DbHost.
Remove(h, gone) ==
  /\ releases' = [releases EXCEPT ![h] = @ \ gone]
  /\ code' = [code EXCEPT ![h] = [r \in Ids |-> IF r \in gone THEN NoTree ELSE code[h][r]]]
  /\ newer' = [newer EXCEPT ![h] = [r \in Ids |->
                 IF r \in gone THEN {} ELSE newer[h][r] \ gone]]
  /\ linked' = [linked EXCEPT ![h] = @ \ gone]
  /\ dump' = IF h = DbHost
             THEN [r \in Ids |-> IF r \in gone THEN NoDump ELSE dump[r]] ELSE dump

\* Mutants: one release too few, one too many, the wrong end of the list.
KeptFewer(S) == {r \in S : Cardinality({s \in S : s > r}) + 1 < KeepReleases}
KeptMore(S) == {r \in S : Cardinality({s \in S : s > r}) <= KeepReleases}
KeptOldest(S) == {r \in S : Cardinality({s \in S : s < r}) < KeepReleases}

\* The KeepReleases newest names of S: releases.last(keep_releases) of "ls -x".
Kept(S) == {r \in S : Cardinality({s \in S : s > r}) < KeepReleases}

Cleanup(o, h) ==
  /\ At(o, "cleanup", h)
  /\ Remove(h, releases[h] \ Kept(releases[h]))
  /\ Advance(o, h)
  /\ UNCHANGED <<current, webroot, sourceVars, db, nameVars, pages>>

\* cleanup_rollback deletes the newest name unless it is the current release.
Archive(o, h) ==
  /\ At(o, "archive", h)
  /\ releases[h] # {}
  /\ Remove(h, Newest(releases[h]) \ {current[h]})
  /\ Advance(o, h)
  /\ UNCHANGED <<current, webroot, sourceVars, db, nameVars, pages>>

(***************************************************************************)
(* The release to roll back to: the second of "ls -t" on each host; every  *)
(* host sets release_path, so the host that comes last decides.            *)
(***************************************************************************)
Pick(o, h) ==
  /\ At(o, "pick", h)
  /\ \E r \in releases[h] :
       /\ Cardinality(newer[h][r]) = 1
       /\ AdvanceTo(o, h, r)
  /\ UNCHANGED <<diskVars, sourceVars, dataVars, nameVars, pages>>

(***************************************************************************)
(* Failure.  Refuse: what the step needs is not there and its command      *)
(* exits non-zero.  Abort: it fails for a reason outside the model.        *)
(***************************************************************************)
Refused(o) ==
  LET run == runs[o]
  IN  \/ run.at = "newpath" /\ lastId >= MaxReleases
      \/ run.at = "dump" /\ dump[run.rel].form # "gz"
           /\ \/ run.rel \notin releases[DbHost]
              \/ Bootstraps(run.rel) /\ ~SettingsWork(DbHost, current[DbHost])
      \/ run.at = "gunzip" /\ \A r \in Newest(releases[DbHost]) : dump[r].form # "gz"
      \/ run.at = "drop" /\ ~SettingsWork(DbHost, run.last)
      \/ run.at = "import" /\ dump[run.last].form # "sql"
      \/ run.at = "updatedb" /\ ~CanUpdate(o)
      \/ run.at = "aliases" /\ \E h \in run.todo : run.rel \notin releases[h]
      \/ run.at = "archive" /\ \E h \in run.todo : releases[h] = {}
      \/ run.at = "pick" /\ \E h \in run.todo : Cardinality(releases[h]) < 2

Refuse(o) ==
  /\ Running(o)
  /\ Refused(o)
  /\ Stop(o)
  /\ UNCHANGED <<diskVars, sourceVars, dataVars, nameVars, pages>>

Abort(o) ==
  /\ "abort" \in Faults
  /\ Running(o)
  /\ Stop(o)
  /\ UNCHANGED <<diskVars, sourceVars, dataVars, nameVars, pages>>

(***************************************************************************)
(* The world around the runs.                                              *)
(***************************************************************************)
Push ==
  /\ head < MaxRev
  /\ head' = head + 1
  /\ UNCHANGED <<diskVars, staged, cache, dataVars, nameVars, pages, runs>>

Serves(h, s) == /\ h \in AppHosts
                /\ webroot[h]
                /\ db[s].up
                /\ SettingsWork(h, current[h])

Edit(s) ==
  /\ \E h \in Hosts : Serves(h, s)
  /\ db[s].edits < MaxEdits
  /\ db' = [db EXCEPT ![s].edits = @ + 1]
  /\ UNCHANGED <<diskVars, sourceVars, dump, nameVars, pages, runs>>

\* A visitor's page is fetched from an app host and kept by a Varnish.
View(v) ==
  /\ \E h \in Hosts, s \in Sites : Serves(h, s) /\ pages' = [pages EXCEPT ![v] = @ \cup {current[h]}]
  /\ UNCHANGED <<diskVars, sourceVars, dataVars, nameVars, runs>>

LocalStep(o) == NewPath(o) \/ Stage(o) \/ Build(o)
DbStep(o) == \/ DumpTaken(o) \/ DumpSkipped(o)
             \/ Gunzip(o) \/ DropTables(o) \/ Import(o)
             \/ UpdatesDone(o) \/ \E s \in Sites : UpdateHook(o, s)
HostStep(o, h) == \/ Rsync(o, h) \/ Copy(o, h) \/ CopyBreaks(o, h)
                  \/ Aliases(o, h) \/ Link(o, h) \/ RemoveWeb(o, h)
                  \/ LinkWeb(o, h) \/ Settings(o, h) \/ Ban(o, h)
                  \/ Cleanup(o, h) \/ Archive(o, h) \/ Pick(o, h)
Step(o) == LocalStep(o) \/ DbStep(o) \/ Refuse(o) \/ \E h \in Hosts : HostStep(o, h)

Next == \/ \E o \in Operators : \/ \E c \in Commands : Start(o, c)
                                \/ Step(o)
                                \/ Abort(o)
        \/ Push
        \/ \E s \in Sites : Edit(s)
        \/ \E v \in VarnishHosts : View(v)

Spec == Init /\ [][Next]_vars

\* A cap process that was started goes on until it ends.
FairSpec == Spec /\ \A o \in Operators : WF_vars(Step(o))

(***************************************************************************)
(* Properties.                                                             *)
(***************************************************************************)
\* Every variable has its type.
TypeOK ==
  /\ releases \in [Hosts -> SUBSET Ids]
  /\ code \in [Hosts -> [Ids -> Tree]]
  /\ newer \in [Hosts -> [Ids -> SUBSET Ids]]
  /\ current \in [Hosts -> Ids]
  /\ webroot \in [Hosts -> BOOLEAN]
  /\ linked \in [Hosts -> SUBSET Ids]
  /\ cache \in [Hosts -> Tree]
  /\ db \in [Sites -> Database]
  /\ dump \in [Ids -> Dump]
  /\ pages \in [Hosts -> SUBSET Ids]
  /\ staged \in Tree /\ head \in Revs
  /\ runs \in [Operators -> Run]
  /\ lastId \in Ids /\ base \in [Ids -> [edits : 0..MaxEdits, head : Revs]]

\* The release "current" names is on disk, on every host: no deploy, rollback or
\* clean-up deletes the code that is being served or links code that is not there.
LiveReleaseExists == \A h \in Hosts : current[h] \in releases[h]

\* Whatever is restored, the site's database never holds less than it held when
\* the newest release was named: revert_database can lose the edits made since
\* that deploy began, and no others.
ContentKept ==
  db[1].up => \A r \in Newest(releases[DbHost]) : db[1].edits >= base[r].edits

\* o's last command ended well and nobody runs another.
Succeeded(o, cmds) == /\ runs[o].status = "ok" /\ runs[o].cmd \in cmds
                      /\ \A p \in Operators : ~Running(p)

\* A deploy or a rollback that reports success left every host on its release,
\* and every app host with a web root, working settings and a database behind it.
SuccessIsLive ==
  \A o \in Operators : Succeeded(o, {"deploy", "rollback"}) =>
    /\ \A h \in Hosts : current[h] = runs[o].rel
    /\ \A h \in AppHosts, s \in Sites : Serves(h, s)

\* After it, the database of every site has the schema of the code that is live.
SchemaFitsCode ==
  \A o \in Operators, s \in Sites : Succeeded(o, {"deploy", "rollback"}) =>
    db[s].schema = code[DbHost][current[DbHost]].src

\* A deploy that reports success put the same tree on every host: complete, built
\* from the commit it holds, and no older than the branch was when it began.
DeployIsStaged ==
  \A o \in Operators : Succeeded(o, {"deploy"}) =>
    \E tree \in Tree : /\ tree.whole /\ tree.built = tree.src
                       /\ tree.src >= base[runs[o].rel].head
                       /\ \A h \in Hosts : code[h][runs[o].rel] = tree

\* A deploy that reports success took a backup.
DeployIsBackedUp ==
  \A o \in Operators : Succeeded(o, {"deploy"}) => dump[runs[o].rel].form = "gz"

\* An update hook changes the first site's database only when all hosts run the
\* same release and that release keeps a dump; in a deploy it is the dump that a
\* rollback would restore, and no newer than the change.
UpdatesCanBeUndone ==
  [][db[1].up /\ db'[1].up /\ db'[1].schema > db[1].schema =>
       \E r \in Ids : /\ \A h \in Hosts : current[h] = r
                      /\ dump[r].form # "none"
                      /\ \A o \in Operators : Running(o) /\ runs[o].cmd = "deploy" =>
                           /\ r \in Newest(releases[DbHost])
                           /\ dump[r].form = "gz" /\ dump[r].schema <= db[1].schema]_vars

\* After a deploy that reports success every host has another release, the same
\* one on all of them, that a rollback would pick.
RollbackReady ==
  KeepReleases > 1 =>
    \A o \in Operators : Succeeded(o, {"deploy"}) =>
      \E r \in Ids : \A h \in Hosts : r \in releases[h] /\ Cardinality(newer[h][r]) = 1

\* After a deploy that reports success no Varnish of a web host still holds a page
\* of an earlier release.
NoStalePages ==
  \A o \in Operators : Succeeded(o, {"deploy"}) =>
    \A v \in VarnishHosts \cap WebHosts : pages[v] \subseteq {runs[o].rel}

\* After a deploy that reports success no host keeps more than KeepReleases releases.
KeptAtMost ==
  \A o \in Operators : Succeeded(o, {"deploy"}) =>
    \A h \in Hosts : Cardinality(releases[h]) <= KeepReleases

\* When no command fails, a deploy that starts ends with its release live on
\* every host.
DeployGoesLive ==
  \A o \in Operators, r \in Ids :
    (Running(o) /\ runs[o].cmd = "deploy" /\ runs[o].rel = r) ~>
       (runs[o].status = "ok" /\ \A h \in Hosts : current[h] = r)
=============================================================================
