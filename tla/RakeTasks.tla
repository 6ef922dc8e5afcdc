----------------------------- MODULE RakeTasks -----------------------------
(***************************************************************************)
(* How Rake turns "cap <stage> <command>" into an order of steps.          *)
(*                                                                         *)
(* A task has prerequisites and actions.  To invoke a task is to invoke    *)
(* its prerequisites and then to run its actions, unless it was invoked    *)
(* before in this process.  The files of this repository hook tasks onto   *)
(* the stock Capistrano ones; some hooks are only added while the command  *)
(* runs: web:load_platform loads capistrano/drupal.rb or wordpress.rb,     *)
(* web:add_build and rsync:hook_scm add actions to the rsync tasks.        *)
(*                                                                         *)
(*   prereqs, actions   the task table of the process                      *)
(*   invoked            the tasks invoked so far                           *)
(*   agenda             what is left to do, first things first             *)
(*   log                the steps done on the hosts, first things first    *)
(***************************************************************************)
EXTENDS Naturals, Sequences, Functions, DeployPlans

CONSTANTS
  TaskCommands,   \* the commands given to cap, one to a run
  FlagSets        \* the values of the settings below

\* :platform, :drupal_db_updates, :drupal_features, :drupal_cmi, :wordpress_wpcfm
\* and whether ENV["ignore_rsync_stage"] is set.
Flags == [platform : {"drupal", "wordpress"}, updates : BOOLEAN, features : BOOLEAN,
          cmi : BOOLEAN, wpcfm : BOOLEAN, unstaged : BOOLEAN]
ASSUME FlagAssumption == FlagSets \subseteq Flags

VARIABLES cmd, flags, prereqs, actions, invoked, agenda, log, status
tables == <<prereqs, actions>>
vars == <<cmd, flags, tables, invoked, agenda, log, status>>

\* Things on the agenda: invoke a task, run the actions of a task whose
\* prerequisites are done, do a step on the hosts, add hooks to the tables.
Invoke(t) == [do |-> "invoke", what |-> t]
Act(t)    == [do |-> "act",    what |-> t]
Op(s)     == [do |-> "op",     what |-> s]
Extend(x) == [do |-> "extend", what |-> x]

InvokeAll(tasks) == [i \in DOMAIN tasks |-> Invoke(tasks[i])]
Ops(steps) == [i \in DOMAIN steps |-> Op(steps[i])]
When(p, items) == IF p THEN items ELSE <<>>

\* What a file adds to the entry of a task, and a table read where it has no entry.
Row(t, more) == [task |-> t, adds |-> more]
Added(rows, t) == IF \E r \in rows : r.task = t
                  THEN (CHOOSE r \in rows : r.task = t).adds ELSE <<>>
Entry(table, t) == IF t \in DOMAIN table THEN table[t] ELSE <<>>
Enhance(table, rows) == [t \in DOMAIN table \cup {r.task : r \in rows} |->
                           Entry(table, t) \o Added(rows, t)]
NoTasks == [t \in {} |-> <<>>]

(***************************************************************************)
(* The tasks of Capistrano itself, as far as the repository hooks them.    *)
(***************************************************************************)
StockPrereqs ==
  {Row("deploy:updating", <<"deploy:new_release_path">>),
   Row("deploy:revert_release", <<"deploy:rollback_release_path">>)}

StockActions ==
  {Row("deploy",
       InvokeAll(<<"deploy:starting", "deploy:started", "deploy:updating", "deploy:updated",
                   "deploy:publishing", "deploy:published", "deploy:finishing",
                   "deploy:finished">>)),
   Row("deploy:rollback",
       InvokeAll(<<"deploy:starting", "deploy:started", "deploy:reverting",
                   "deploy:reverted", "deploy:publishing", "deploy:published",
                   "deploy:finishing_rollback", "deploy:finished">>)),
   Row("deploy:starting", InvokeAll(<<"deploy:check">>)),
   Row("deploy:check", InvokeAll(<<"rsync:check">>)),
   Row("deploy:new_release_path", Ops(<<"newpath">>)),
   Row("deploy:updating",
       InvokeAll(<<"rsync:create_release", "rsync:set_current_revision">>)),
   Row("deploy:reverting", InvokeAll(<<"deploy:revert_release">>)),
   Row("deploy:rollback_release_path", Ops(<<"pick">>)),
   Row("deploy:publishing", InvokeAll(<<"deploy:symlink:release">>)),
   Row("deploy:symlink:release", Ops(<<"link">>)),
   Row("deploy:finishing", InvokeAll(<<"deploy:cleanup">>)),
   Row("deploy:finishing_rollback", InvokeAll(<<"deploy:cleanup_rollback">>))}
  \cup {Row(t, <<>>) : t \in {"deploy:started", "deploy:updated", "deploy:reverted",
                               "deploy:published", "deploy:finished",
                               "deploy:revert_release"}}

(***************************************************************************)
(* web.rake, rsync.rb, drush.rake, wpcli.rake and deploy.rb.               *)
(***************************************************************************)
\* Mutant: the platform is loaded when a deploy starts updating, which a
\* rollback never does.
ProjectPrereqsLate ==
  {Row("deploy:finishing", <<"web:restart">>),
   Row("deploy:updating", <<"web:add_build", "web:load_platform", "rsync:hook_scm">>),
   Row("deploy:check", <<"rsync:hook_scm">>),
   Row("deploy:install", <<"deploy:check", "deploy:starting", "deploy:started",
                           "deploy:updating", "deploy:updated", "deploy:publishing">>),
   Row("rsync:stage", <<"rsync:create_stage">>),
   Row("rsync", <<"rsync:stage">>),
   Row("rsync:release", <<"rsync">>),
   Row("rsync:create_release", <<"rsync:release">>)}

ProjectPrereqs ==
  {Row("deploy:finishing", <<"web:restart">>),
   Row("deploy:updating", <<"web:add_build", "rsync:hook_scm">>),
   Row("deploy:starting", <<"web:load_platform">>),
   Row("deploy:check", <<"rsync:hook_scm">>),
   Row("deploy:install", <<"deploy:check", "deploy:starting", "deploy:started",
                           "deploy:updating", "deploy:updated", "deploy:publishing">>),
   Row("rsync:stage", <<"rsync:create_stage">>),
   Row("rsync", <<"rsync:stage">>),
   Row("rsync:release", <<"rsync">>),
   Row("rsync:create_release", <<"rsync:release">>)}

\* "#{fetch(:platform)}:...": the name of a task of the platform.
OfPlatform(f, drupal, wordpress) == IF f.platform = "drupal" THEN drupal ELSE wordpress

WebActions(f) ==
  {Row("web:load_platform", <<Extend("platform")>>),
   Row("web:add_build", <<Extend("build")>>),
   Row("web:run_build", When(~f.unstaged, InvokeAll(<<"web:build">>))),
   Row("web:build", Ops(<<"build">>)),
   Row("web:varnish:ban", Ops(<<"ban">>)),
   Row("web:restart", InvokeAll(<<"web:varnish:ban">>)),
   Row("deploy:install", InvokeAll(<<OfPlatform(f, "drupal:install", "wordpress:install"),
                                     "deploy:published", "deploy:finishing",
                                     "deploy:finished">>)),
   Row("deploy:symlink:release", InvokeAll(<<"deploy:symlink:web",
                                             "deploy:symlink:settings">>)),
   Row("deploy:symlink:web", Ops(<<"web">>)),
   Row("deploy:symlink:settings", InvokeAll(<<OfPlatform(f, "drupal:settings",
                                                         "wordpress:settings")>>)),
   Row("deploy:cleanup", Ops(<<"cleanup">>)),
   Row("deploy:cleanup_rollback", Ops(<<"archive">>))}

RsyncActions(f) ==
  {Row("rsync:hook_scm", <<Extend("scm")>>),
   Row("rsync:stage", When(~f.unstaged, Ops(<<"stage">>))),
   Row("rsync", Ops(<<"rsync">>)),
   Row("rsync:release", Ops(<<"copy">>))}
  \cup {Row(t, <<>>) : t \in {"rsync:check", "rsync:create_stage",
                               "rsync:create_release", "rsync:set_current_revision"}}

DrushActions(f) ==
  {Row("drush:initialize", InvokeAll(<<"drush:drushdir", "drush:aliases">>)),
   Row("drush:drushdir", Ops(<<"drushdir">>)),
   Row("drush:aliases", Ops(<<"aliases">>)),
   Row("drush:siteinstall", Ops(<<"install">>)),
   Row("drush:sqlsync", Ops(<<"sqlsync">>) \o InvokeAll(<<"drush:update">>)),
   Row("drush:rsync", Ops(<<"files">>)),
   Row("drush:sqldump", Ops(<<"dump">>)),
   Row("drush:updatedb", Ops(<<"updatedb">>)),
   Row("drush:cc", Ops(<<"cc">>)),
   Row("drush:update", When(f.updates, InvokeAll(<<"drush:updatedb">>))
                       \o InvokeAll(<<"drush:cc">>)
                       \o When(f.features, InvokeAll(<<"drush:features:revert">>))
                       \o When(f.cmi, InvokeAll(<<"drush:configuration:sync">>))),
   Row("drush:configuration:sync", Ops(<<"config">>) \o InvokeAll(<<"drush:cc">>)),
   Row("drush:features:revert", Ops(<<"features">>) \o InvokeAll(<<"drush:cc">>)),
   Row("drush:sapi:reindex", Ops(<<"sapi">>) \o InvokeAll(<<"drush:cc">>))}

WpcliActions(f) ==
  {Row("wpcli:dbexport", Ops(<<"dump">>)),
   Row("wpcli:wpcfm:pull", Ops(<<"wpcfm">>)),
   Row("wpcli:update", When(f.wpcfm, InvokeAll(<<"wpcli:wpcfm:pull">>)))}

ProjectActions(f) == WebActions(f) \cup RsyncActions(f) \cup DrushActions(f)
                     \cup WpcliActions(f)

\* Any task that is there when cap starts can be given as the command, also one that is
\* only meant to be a part of others: those of the files above and the stock ones they
\* hook.  Those of capistrano/drupal.rb and wordpress.rb are not there yet.
Commands == UNION {{r.task : r \in StockActions \cup ProjectActions(f)} : f \in Flags}
ASSUME CommandAssumption == TaskCommands \subseteq Commands

(***************************************************************************)
(* The hooks added while a command runs.                                   *)
(***************************************************************************)
\* Mutant: the backup runs behind the publishing it was to come before.
DrupalHooksLate ==
  [prereqs |-> {Row("deploy:symlink:release", <<"drush:initialize">>)},
   actions |->
     {Row("deploy:rollback_release_path", InvokeAll(<<"drupal:revert_database">>)),
      Row("deploy:published", InvokeAll(<<"drush:update", "drupal:dbbackup">>)),
      Row("drupal:install", InvokeAll(<<"drush:siteinstall">>)),
      Row("drupal:settings", Ops(<<"settings">>)),
      Row("drupal:revert_database", Ops(<<"gunzip", "drop", "import">>)),
      Row("drupal:dbbackup", InvokeAll(<<"drush:sqldump">>))}]

DrupalHooks ==
  [prereqs |-> {Row("deploy:publishing", <<"drupal:dbbackup">>),
                Row("deploy:symlink:release", <<"drush:initialize">>)},
   actions |->
     {Row("deploy:rollback_release_path", InvokeAll(<<"drupal:revert_database">>)),
      Row("deploy:published", InvokeAll(<<"drush:update">>)),
      Row("drupal:install", InvokeAll(<<"drush:siteinstall">>)),
      Row("drupal:settings", Ops(<<"settings">>)),
      Row("drupal:revert_database", Ops(<<"gunzip", "drop", "import">>)),
      Row("drupal:dbbackup", InvokeAll(<<"drush:sqldump">>))}]

WordpressHooks ==
  [prereqs |-> {Row("deploy:published", <<"wordpress:dbbackup">>)},
   actions |->
     {Row("deploy:rollback_release_path", InvokeAll(<<"wordpress:revert_database">>)),
      Row("deploy:published", InvokeAll(<<"wpcli:update">>)),
      Row("wordpress:settings", Ops(<<"settings">>)),
      Row("wordpress:dbbackup", InvokeAll(<<"wpcli:dbexport">>)),
      Row("wordpress:revert_database", Ops(<<"gunzip", "import">>))}]

\* Mutants: a hook executes a task where it should invoke it.
ScmHooksExecuteCheck ==
  [prereqs |-> {},
   actions |-> {Row("rsync:check", <<Act("rsync:check")>>),
                Row("rsync:create_release", InvokeAll(<<"rsync:release">>))}]
ScmHooksExecuteRelease ==
  [prereqs |-> {},
   actions |-> {Row("rsync:check", InvokeAll(<<"rsync:check">>)),
                Row("rsync:create_release", <<Act("rsync:release")>>)}]

\* scm is "rsync", so the hook for "#{scm}:check" makes rsync:check invoke itself.
ScmHooks ==
  [prereqs |-> {},
   actions |-> {Row("rsync:check", InvokeAll(<<"rsync:check">>)),
                Row("rsync:create_release", InvokeAll(<<"rsync:release">>))}]

BuildHooks ==
  [prereqs |-> {}, actions |-> {Row("rsync:stage", InvokeAll(<<"web:run_build">>))}]

Hooks == [scm      |-> ScmHooks,
          build    |-> BuildHooks,
          platform |-> IF flags.platform = "drupal" THEN DrupalHooks ELSE WordpressHooks]

(***************************************************************************)
(* Running a command.                                                      *)
(***************************************************************************)
Init ==
  /\ cmd \in TaskCommands
  /\ flags \in FlagSets
  /\ prereqs = Enhance(Enhance(NoTasks, StockPrereqs), ProjectPrereqs)
  /\ actions = Enhance(Enhance(NoTasks, StockActions), ProjectActions(flags))
  /\ invoked = {}
  /\ agenda = <<Invoke(cmd)>>
  /\ log = <<>>
  /\ status = "running"

\* The first thing on the agenda is to do x.
Due(x) == status = "running" /\ agenda # <<>> /\ Head(agenda).do = x
Subject == Head(agenda).what
Replace(items) == agenda' = items \o Tail(agenda)

InvokeTask ==
  /\ Due("invoke")
  /\ Subject \in DOMAIN actions
  /\ invoked' = invoked \cup {Subject}
  /\ Replace(IF Subject \in invoked THEN <<>>
             ELSE InvokeAll(Entry(prereqs, Subject)) \o <<Act(Subject)>>)
  /\ UNCHANGED <<cmd, flags, tables, log, status>>

\* "Don't know how to build task ..."
InvokeUnknown ==
  /\ Due("invoke")
  /\ Subject \notin DOMAIN actions
  /\ status' = "unknown"
  /\ UNCHANGED <<cmd, flags, tables, invoked, agenda, log>>

\* The actions are looked up now: hooks its prerequisites added are among them.
RunActions ==
  /\ Due("act")
  /\ Replace(actions[Subject])
  /\ UNCHANGED <<cmd, flags, tables, invoked, log, status>>

DoOp ==
  /\ Due("op")
  /\ log' = Append(log, Subject)
  /\ Replace(<<>>)
  /\ UNCHANGED <<cmd, flags, tables, invoked, status>>

OpFails ==
  /\ Due("op")
  /\ status' = "failed"
  /\ UNCHANGED <<cmd, flags, tables, invoked, agenda, log>>

AddHooks ==
  /\ Due("extend")
  /\ LET more == Hooks[Subject]
     IN  /\ prereqs' = Enhance(prereqs, more.prereqs)
         /\ actions' = Enhance(actions, more.actions)
  /\ Replace(<<>>)
  /\ UNCHANGED <<cmd, flags, invoked, log, status>>

Finish ==
  /\ status = "running" /\ agenda = <<>>
  /\ status' = "ok"
  /\ UNCHANGED <<cmd, flags, tables, invoked, agenda, log>>

Next == \/ InvokeTask \/ InvokeUnknown \/ RunActions
        \/ DoOp \/ OpFails \/ AddHooks \/ Finish

Spec == Init /\ [][Next]_vars

\* The cap process goes on until its command ends.
FairSpec == Spec /\ WF_vars(Next)

(***************************************************************************)
(* Properties.                                                             *)
(***************************************************************************)
Positions(s) == {i \in DOMAIN log : log[i] = s}
Before(s, t) == \A i \in Positions(t) : \E j \in Positions(s) : j < i

\* Every task a command comes to is defined by then: capistrano/drupal.rb and
\* wordpress.rb are loaded before the first task that only they define.  There are
\* two exceptions.  Nothing defines wordpress:install.  And a command that starts
\* behind deploy:starting (web.rake:15), at the publishing or at the links, comes to
\* the settings of a platform that was not loaded.
Unloaded == {"deploy:publishing", "deploy:symlink:release", "deploy:symlink:settings"}
TasksAreKnown ==
  status = "unknown" =>
    \/ Subject = "wordpress:install" /\ cmd = "deploy:install"
    \/ /\ Subject = OfPlatform(flags, "drupal:settings", "wordpress:settings")
       /\ cmd \in Unloaded

\* No step is done twice, though several hooks and prerequisites lead to it.
StepsOnce == \A s \in Range(log) : \E i \in DOMAIN log : Positions(s) = {i}

\* Every command ends, although the scm hooks make rsync:check invoke itself.
CommandEnds == <>(status # "running")

\* A command that links a release comes to no update of the database before the
\* backup and the settings, and on Drupal the backup comes before the link, too.  Only
\* a command that starts behind the backup, at the publishing or at the link, links a
\* release without one; it comes to no update.
UpdatesComeLast ==
  "link" \in Range(log) =>
    /\ \A update \in {"updatedb", "features", "config", "wpcfm"} :
         Before("dump", update) /\ Before("settings", update)
    /\ flags.platform = "drupal" /\ cmd \notin Unloaded => Before("dump", "link")

\* The steps of a command are those of DeployPlans, each once, in its order, under
\* the settings that leave none out.
PlannedAs(c) == CASE c = "deploy" -> "deploy"
                  [] c = "deploy:rollback" -> "rollback"
                  [] c = "deploy:cleanup" -> "cleanup"
Planned == /\ cmd \in {"deploy", "deploy:rollback", "deploy:cleanup"}
           /\ flags.platform = "drupal" /\ flags.updates /\ ~flags.unstaged
StepsDone == SelectSeq(log, LAMBDA s : s \in StepNames)
Walk == INSTANCE PlanWalk WITH
          cmd  <- IF Planned THEN PlannedAs(cmd) ELSE "deploy",
          step <- IF ~Planned \/ StepsDone = <<>> THEN "start"
                  ELSE IF status = "ok" THEN "end" ELSE StepsDone[Len(StepsDone)]
FollowsPlan == Walk!Spec
=============================================================================
