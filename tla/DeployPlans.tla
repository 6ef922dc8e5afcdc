---------------------------- MODULE DeployPlans ----------------------------
(***************************************************************************)
(* The order in which a Capistrano command of this repository touches the  *)
(* world.  Rake computes it from the stock Capistrano tasks and from the   *)
(* hooks that lib/capistrano/tasks/web.rake, capistrano/rsync.rb and       *)
(* capistrano/drupal.rb attach to them; module RakeTasks derives the same  *)
(* order by running Rake's own rules over those hooks.                     *)
(*                                                                         *)
(* A step is named for what it does on a host:                             *)
(*   newpath   deploy:updating            choose the new release's name    *)
(*   stage     rsync:stage                git fetch and reset              *)
(*   build     web:build                  npm install and grunt build      *)
(*   rsync     rsync                      push the tree to a host's cache  *)
(*   copy      rsync:release              copy the cache to the release    *)
(*   dump      drush:sqldump              back the database up             *)
(*   aliases   drush:aliases              needs the release directory      *)
(*   link      deploy:symlink:release     point "current" at the release   *)
(*   web       deploy:symlink:web         remove and relink the web root   *)
(*   settings  drupal:settings            link the stage's settings        *)
(*   updatedb  drush:updatedb             run the pending update hooks     *)
(*   ban       web:varnish:ban            drop the cached pages            *)
(*   cleanup   deploy:cleanup             delete the oldest releases       *)
(*   pick      deploy:rollback_release_path                                *)
(*   gunzip, drop, import  drupal:revert_database                          *)
(*   archive   deploy:cleanup_rollback    delete the rolled-back release   *)
(***************************************************************************)

CommandNames == {"deploy", "rollback", "cleanup"}

StepNames == {"newpath", "stage", "build", "rsync", "copy", "dump", "aliases",
              "link", "web", "settings", "updatedb", "ban",
              "cleanup", "pick", "gunzip", "drop", "import", "archive"}

First == [deploy   |-> "newpath",
          rollback |-> "pick",
          cleanup  |-> "cleanup"]

\* Two faulty orders, for the mutants: the backup hooked to deploy:published
\* behind the updates, and the ban hooked to deploy:publishing.
AfterDumpLate ==
  [deploy |->
     [newpath |-> "stage", stage |-> "build", build |-> "rsync",
      rsync |-> "copy", copy |-> "aliases", aliases |-> "link", link |-> "web",
      web |-> "settings", settings |-> "updatedb", updatedb |-> "dump",
      dump |-> "ban", ban |-> "cleanup", cleanup |-> "end"],
   rollback |->
     [pick |-> "gunzip", gunzip |-> "drop", drop |-> "import",
      import |-> "aliases", aliases |-> "link", link |-> "web",
      web |-> "settings", settings |-> "updatedb", updatedb |-> "dump",
      dump |-> "archive", archive |-> "end"],
   cleanup |-> [cleanup |-> "end"]]

AfterBanEarly ==
  [deploy |->
     [newpath |-> "stage", stage |-> "build", build |-> "rsync",
      rsync |-> "copy", copy |-> "dump", dump |-> "ban", ban |-> "aliases",
      aliases |-> "link", link |-> "web", web |-> "settings",
      settings |-> "updatedb", updatedb |-> "cleanup", cleanup |-> "end"],
   rollback |->
     [pick |-> "gunzip", gunzip |-> "drop", drop |-> "import",
      import |-> "dump", dump |-> "aliases", aliases |-> "link",
      link |-> "web", web |-> "settings", settings |-> "updatedb",
      updatedb |-> "archive", archive |-> "end"],
   cleanup |-> [cleanup |-> "end"]]

After == [deploy |->
            [newpath |-> "stage", stage |-> "build", build |-> "rsync",
             rsync |-> "copy", copy |-> "dump", dump |-> "aliases",
             aliases |-> "link", link |-> "web", web |-> "settings",
             settings |-> "updatedb", updatedb |-> "ban", ban |-> "cleanup",
             cleanup |-> "end"],
          rollback |->
            [pick |-> "gunzip", gunzip |-> "drop", drop |-> "import",
             import |-> "dump", dump |-> "aliases", aliases |-> "link",
             link |-> "web", web |-> "settings", settings |-> "updatedb",
             updatedb |-> "archive", archive |-> "end"],
          cleanup |->
            [cleanup |-> "end"]]
=============================================================================
