--------------------------- MODULE RakeTasksProofs ---------------------------
(***************************************************************************)
(* For any one task that is there when cap starts, given as the command,   *)
(* and for every setting: no step is done twice; every task the command    *)
(* comes to is defined by then, but for the two kinds TasksAreKnown names; *)
(* and a command that links a release backs the database up and links the  *)
(* settings before it updates the database.                                *)
(*                                                                         *)
(* The tables decide all of it, but hooks grow them while a command runs.  *)
(* The argument goes in three parts.                                       *)
(*                                                                         *)
(* Rows.  MayInvoke and MayNeed say who may call whom, StepOwner which     *)
(* task does a step.  Each row of each file keeps to that (the lemmas on   *)
(* the rows), so the tables do, whatever hooks were added (TablesInv).     *)
(*                                                                         *)
(* Once.  The actions of a task come on the agenda when it is first        *)
(* invoked, and their steps when it has run (Ran); each step has one       *)
(* owner, so it comes once (OnceInv).                                      *)
(*                                                                         *)
(* Order.  What must come first is a guard: an agenda is Guarded when      *)
(* everything of one set has a thing of another before it.  The first      *)
(* thing on the agenda then needs no guard (GuardFirst); a guard that      *)
(* leaves the agenda leaves another behind, or what it was there for is    *)
(* done (LoadKept, SettingsKept, BackupKept).  It leaves one behind        *)
(* because what it calls was not called before: FamilyInv says of such     *)
(* tasks that their only caller has run when they were called, and         *)
(* CallsInv that the caller's entry has the call.  A command that starts   *)
(* behind the loading of the platform has no such guard; LateInv says that *)
(* it comes to the links and the settings and to nothing else.             *)
(***************************************************************************)
EXTENDS RakeTasks, TLAPS

(***************************************************************************)
(* Who calls whom.                                                         *)
(***************************************************************************)
\* The tasks defined when a command starts.
BaseTasks ==
  {"deploy", "deploy:rollback", "deploy:starting", "deploy:check",
   "deploy:new_release_path", "deploy:updating", "deploy:reverting",
   "deploy:rollback_release_path", "deploy:publishing", "deploy:symlink:release",
   "deploy:finishing", "deploy:finishing_rollback", "deploy:started", "deploy:updated",
   "deploy:reverted", "deploy:published", "deploy:finished", "deploy:revert_release",
   "web:load_platform", "web:add_build", "web:run_build", "web:build",
   "web:varnish:ban", "web:restart", "deploy:install", "deploy:symlink:web",
   "deploy:symlink:settings", "deploy:cleanup", "deploy:cleanup_rollback",
   "rsync:hook_scm", "rsync:stage", "rsync", "rsync:release", "rsync:check",
   "rsync:create_stage", "rsync:create_release", "rsync:set_current_revision",
   "drush:initialize", "drush:drushdir", "drush:aliases", "drush:siteinstall",
   "drush:sqlsync", "drush:rsync", "drush:sqldump", "drush:updatedb", "drush:cc",
   "drush:update", "drush:configuration:sync", "drush:features:revert",
   "drush:sapi:reindex", "wpcli:dbexport", "wpcli:wpcfm:pull", "wpcli:update"}

\* The tasks that the file of the platform defines.
PlatformTasks(f) ==
  IF f.platform = "drupal"
  THEN {"drupal:install", "drupal:settings", "drupal:revert_database", "drupal:dbbackup"}
  ELSE {"wordpress:settings", "wordpress:dbbackup", "wordpress:revert_database"}

\* The steps, the sets of hooks, and the things on an agenda.
AllSteps == StepNames \cup {"drushdir", "install", "sqlsync", "files", "cc", "config",
                           "features", "sapi", "wpcfm"}
Names == BaseTasks \cup AllSteps \cup {"platform", "build", "scm"}
         \cup {"drupal:install", "drupal:settings", "drupal:revert_database",
               "drupal:dbbackup", "wordpress:install", "wordpress:settings",
               "wordpress:dbbackup", "wordpress:revert_database"}
Items == [do : {"invoke", "act", "op", "extend"}, what : Names]

\* Two tasks back a database up.  A command runs one of them at most: the one that was
\* given, or that of its platform.
Dumps == {"drush:sqldump", "wpcli:dbexport"}
OtherDump(c, f) == IF c = "drush:sqldump" THEN "wpcli:dbexport" ELSE
                   IF c = "wpcli:dbexport" THEN "drush:sqldump" ELSE
                   OfPlatform(f, "wpcli:dbexport", "drush:sqldump")

\* The one task that does a step, and the one that adds hooks.
StepOwner(c, f, s) ==
  IF s = "newpath" THEN "deploy:new_release_path" ELSE
  IF s = "pick" THEN "deploy:rollback_release_path" ELSE
  IF s = "link" THEN "deploy:symlink:release" ELSE
  IF s = "build" THEN "web:build" ELSE
  IF s = "ban" THEN "web:varnish:ban" ELSE
  IF s = "web" THEN "deploy:symlink:web" ELSE
  IF s = "cleanup" THEN "deploy:cleanup" ELSE
  IF s = "archive" THEN "deploy:cleanup_rollback" ELSE
  IF s = "stage" THEN "rsync:stage" ELSE
  IF s = "rsync" THEN "rsync" ELSE
  IF s = "copy" THEN "rsync:release" ELSE
  IF s = "drushdir" THEN "drush:drushdir" ELSE
  IF s = "aliases" THEN "drush:aliases" ELSE
  IF s = "install" THEN "drush:siteinstall" ELSE
  IF s = "sqlsync" THEN "drush:sqlsync" ELSE
  IF s = "files" THEN "drush:rsync" ELSE
  IF s = "dump" THEN (IF OtherDump(c, f) = "drush:sqldump"
                      THEN "wpcli:dbexport" ELSE "drush:sqldump") ELSE
  IF s = "updatedb" THEN "drush:updatedb" ELSE
  IF s = "cc" THEN "drush:cc" ELSE
  IF s = "config" THEN "drush:configuration:sync" ELSE
  IF s = "features" THEN "drush:features:revert" ELSE
  IF s = "sapi" THEN "drush:sapi:reindex" ELSE
  IF s = "wpcfm" THEN "wpcli:wpcfm:pull" ELSE
  IF s = "settings" THEN OfPlatform(f, "drupal:settings", "wordpress:settings")
  ELSE OfPlatform(f, "drupal:revert_database", "wordpress:revert_database")
HooksOwner(x) == IF x = "platform" THEN "web:load_platform" ELSE
                 IF x = "build" THEN "web:add_build" ELSE "rsync:hook_scm"
Owner(c, f, x) == IF x.do = "op" THEN StepOwner(c, f, x.what) ELSE HooksOwner(x.what)

\* The actions of task t may invoke task x.
MayInvoke(c, f, t, x) ==
  /\ t \notin Dumps
  /\ x \in BaseTasks \cup PlatformTasks(f) \cup {"wordpress:install"}
  /\ x \notin {OtherDump(c, f), "deploy", "deploy:rollback", "deploy:install",
               "drush:sqlsync", "web:load_platform", "drupal:dbbackup",
               "wordpress:dbbackup"}
  /\ x \in {"deploy:starting", "deploy:publishing"} => t \in {"deploy", "deploy:rollback"}
  /\ x = "deploy:published" => t \in {"deploy", "deploy:rollback", "deploy:install"}
  /\ x = "deploy:symlink:release" => t = "deploy:publishing"
  /\ x = "deploy:symlink:settings" => t = "deploy:symlink:release"
  /\ x \in {"drupal:settings", "wordpress:settings"} => t = "deploy:symlink:settings"
  /\ x \in {"drupal:install", "wordpress:install"} => t = "deploy:install"
  /\ x \in {"drupal:revert_database", "wordpress:revert_database"} =>
       t = "deploy:rollback_release_path"
  /\ x = "drush:sqldump" => t = "drupal:dbbackup"
  /\ x = "wpcli:dbexport" => t = "wordpress:dbbackup"
  /\ x \in {"drush:update", "wpcli:update"} => t \in {"deploy:published", "drush:sqlsync"}
  /\ x \in {"drush:updatedb", "drush:features:revert", "drush:configuration:sync"} =>
       t = "drush:update"
  /\ x = "wpcli:wpcfm:pull" => t = "wpcli:update"

\* Task t may have task x as a prerequisite.
MayNeed(f, t, x) ==
  /\ t \notin Dumps
  /\ \/ x = "web:load_platform" /\ t = "deploy:starting"
     \/ x \in {"deploy:starting", "deploy:publishing"} /\ t = "deploy:install"
     \/ x = "drupal:dbbackup" /\ t = "deploy:publishing" /\ f.platform = "drupal"
     \/ x = "wordpress:dbbackup" /\ t = "deploy:published" /\ f.platform = "wordpress"
     \/ x \in {"deploy:check", "deploy:started", "deploy:updating", "deploy:updated",
               "deploy:new_release_path", "deploy:rollback_release_path", "web:restart",
               "web:add_build", "rsync:hook_scm", "rsync:create_stage", "rsync:stage",
               "rsync", "rsync:release", "drush:initialize"}

\* An entry for task t in the table of actions: steps and hooks are t's own and come
\* once, and what it invokes it may invoke.
Steps == {"op", "extend"}
Plain(q) == \A i \in DOMAIN q : q[i].do = "invoke"
FineItem(c, f, t, x) ==
  /\ x.do # "act"
  /\ x.do = "extend" => x.what \in {"platform", "build", "scm"}
  /\ x.do \in Steps => t \in {Owner(c, f, x), OtherDump(c, f)}
  /\ x.do = "invoke" => MayInvoke(c, f, t, x.what)
FineRow(c, f, t, q) ==
  /\ q \in Seq(Items)
  /\ \A i \in DOMAIN q : FineItem(c, f, t, q[i])
  /\ \A i, j \in DOMAIN q : q[i] = q[j] /\ q[i].do \in Steps => i = j
FineTable(c, f, table) ==
  /\ DOMAIN table \subseteq Names
  /\ \A t \in DOMAIN table : FineRow(c, f, t, table[t])

\* An entry in the table of prerequisites.
FineNeeds(f, t, q) == q \in Seq(Names) /\ \A i \in DOMAIN q : MayNeed(f, t, q[i])
FineNeedsTable(f, table) ==
  /\ DOMAIN table \subseteq Names
  /\ \A t \in DOMAIN table : FineNeeds(f, t, table[t])

(***************************************************************************)
(* The rows of the tables.                                                 *)
(***************************************************************************)
\* A function on 1..n is a sequence.
LEMMA FunctionIsSeq == \A S : \A n \in Nat : \A q \in [1..n -> S] : q \in Seq(S)
  OBVIOUS

\* What is invoked has a name.
LEMMA InvokedName == \A c, f, t, x : MayInvoke(c, f, t, x) => x \in Names
  BY DEF MayInvoke, PlatformTasks, Names

\* A row that only invokes tasks it may invoke is fine.
LEMMA InvokeRow ==
  ASSUME NEW c, NEW f, NEW t, NEW S, NEW q \in Seq(S),
         \A i \in DOMAIN q : MayInvoke(c, f, t, q[i])
  PROVE  FineRow(c, f, t, InvokeAll(q)) /\ Plain(InvokeAll(q))
<1>1. InvokeAll(q) \in Seq(Items)
  <2>1. \A i \in 1..Len(q) : q[i] \in Names
    BY InvokedName
  <2>2. \A x \in Names : Invoke(x) \in Items
    BY DEF Invoke, Items
  <2>3. InvokeAll(q) \in [1..Len(q) -> Items]
    BY <2>1, <2>2 DEF InvokeAll
  <2> QED
    BY <2>3
<1>2. \A i \in DOMAIN q : InvokeAll(q)[i] = Invoke(q[i])
  BY DEF InvokeAll
<1>3. DOMAIN InvokeAll(q) = DOMAIN q
  BY DEF InvokeAll
<1>4. \A s : Invoke(s).do = "invoke" /\ Invoke(s).what = s
  BY DEF Invoke
<1> QED
  BY <1>1, <1>2, <1>3, <1>4 DEF FineRow, FineItem, Plain, Steps

\* An empty row is fine.
LEMMA EmptyRow == \A c, f, t : FineRow(c, f, t, <<>>) /\ Plain(<<>>)
  BY DEF FineRow, Plain

\* A row with one step of its task is fine.
LEMMA StepRow ==
  ASSUME NEW c, NEW f, NEW t, NEW s \in Names, t \in {StepOwner(c, f, s), OtherDump(c, f)}
  PROVE  FineRow(c, f, t, Ops(<<s>>))
<1>1. /\ Ops(<<s>>) \in [1..1 -> Items]
      /\ DOMAIN Ops(<<s>>) = {1} /\ Ops(<<s>>)[1] = Op(s)
  BY DEF Ops, Op, Items
<1>2. Ops(<<s>>) \in Seq(Items)
  BY <1>1, 1 \in Nat, FunctionIsSeq
<1>3. FineItem(c, f, t, Op(s))
  BY DEF FineItem, Steps, Op, Owner
<1> QED
  BY <1>1, <1>2, <1>3 DEF FineRow

\* A row that adds hooks is fine.
LEMMA ExtendRow ==
  ASSUME NEW c, NEW f, NEW t, NEW s \in Names, t = Owner(c, f, Extend(s)),
         s \in {"platform", "build", "scm"}
  PROVE  FineRow(c, f, t, <<Extend(s)>>)
<1>2. Extend(s) \in Items /\ Extend(s).do = "extend"
  BY DEF Extend, Items
<1>3. FineItem(c, f, t, Extend(s))
  BY <1>2 DEF FineItem, Steps, Extend
<1> QED
  BY <1>2, <1>3 DEF FineRow

\* A fine row stays fine when invocations follow.
LEMMA FollowedRow ==
  ASSUME NEW c, NEW f, NEW t, NEW p, NEW q,
         FineRow(c, f, t, p), FineRow(c, f, t, q), Plain(q) \/ p = <<>>
  PROVE  FineRow(c, f, t, p \o q)
<1>1. p \in Seq(Items) /\ q \in Seq(Items)
  BY DEF FineRow
<1>2. CASE p = <<>>
  BY <1>1, <1>2, <<>> \o q = q DEF FineRow
<1>3. CASE Plain(q)
  <2>1. p \o q \in Seq(Items) /\ DOMAIN (p \o q) = 1..(Len(p) + Len(q))
    BY <1>1
  <2>2. \A i \in DOMAIN (p \o q) : \/ i \in DOMAIN p /\ (p \o q)[i] = p[i]
                                   \/ /\ i > Len(p) /\ i - Len(p) \in DOMAIN q
                                      /\ (p \o q)[i] = q[i - Len(p)]
    BY <1>1
  <2>3. \A i \in DOMAIN (p \o q) : FineItem(c, f, t, (p \o q)[i])
    BY <2>2 DEF FineRow
  <2>4. \A i \in DOMAIN (p \o q) : (p \o q)[i].do \in Steps => i \in DOMAIN p /\
        (p \o q)[i] = p[i]
    BY <2>2, <1>3 DEF Plain, Steps
  <2> QED
    BY <2>1, <2>3, <2>4 DEF FineRow
<1> QED
  BY <1>2, <1>3

\* A row of a file that is fine, and one that only invokes.
FineAdd(c, f, r) == r.task \in Names /\ FineRow(c, f, r.task, r.adds)
PlainAdd(c, f, r) == FineAdd(c, f, r) /\ Plain(r.adds)

\* A row that adds no actions.
LEMMA AddNone ==
  ASSUME NEW c, NEW f, NEW t \in Names
  PROVE  PlainAdd(c, f, Row(t, <<>>))
  BY EmptyRow DEF PlainAdd, FineAdd, Row

\* A row that invokes tasks.
LEMMA AddInvoke ==
  ASSUME NEW c, NEW f, NEW t \in Names, NEW S, NEW q \in Seq(S),
         \A i \in DOMAIN q : MayInvoke(c, f, t, q[i])
  PROVE  PlainAdd(c, f, Row(t, InvokeAll(q)))
  BY InvokeRow DEF PlainAdd, FineAdd, Row

\* A row that invokes one task.
LEMMA AddInvokeOne ==
  ASSUME NEW c, NEW f, NEW t \in Names, NEW a, MayInvoke(c, f, t, a)
  PROVE  /\ PlainAdd(c, f, Row(t, InvokeAll(<<a>>)))
         /\ FineRow(c, f, t, InvokeAll(<<a>>)) /\ Plain(InvokeAll(<<a>>))
<1>1. <<a>> \in Seq({a}) /\ \A i \in DOMAIN <<a>> : MayInvoke(c, f, t, <<a>>[i])
  OBVIOUS
<1> QED
  BY <1>1, InvokeRow, AddInvoke

\* A row that invokes two tasks.
LEMMA AddInvokeTwo ==
  ASSUME NEW c, NEW f, NEW t \in Names, NEW a, NEW b,
         MayInvoke(c, f, t, a), MayInvoke(c, f, t, b)
  PROVE  PlainAdd(c, f, Row(t, InvokeAll(<<a, b>>)))
<1>1. <<a, b>> \in Seq({a, b}) /\ \A i \in DOMAIN <<a, b>> : MayInvoke(c, f, t, <<a, b>>[i])
  OBVIOUS
<1> QED
  BY <1>1, AddInvoke

\* A row with one step.
LEMMA AddStep ==
  ASSUME NEW c, NEW f, NEW t \in Names, NEW s \in Names,
         t \in {StepOwner(c, f, s), OtherDump(c, f)}
  PROVE  FineAdd(c, f, Row(t, Ops(<<s>>))) /\ FineRow(c, f, t, Ops(<<s>>))
  BY StepRow DEF FineAdd, Row

\* A row that adds hooks.
LEMMA AddExtend ==
  ASSUME NEW c, NEW f, NEW s \in Names, HooksOwner(s) \in Names,
         s \in {"platform", "build", "scm"}
  PROVE  FineAdd(c, f, Row(HooksOwner(s), <<Extend(s)>>))
<1>1. Extend(s).do = "extend" /\ Extend(s).what = s
  BY DEF Extend
<1>2. Owner(c, f, Extend(s)) = HooksOwner(s)
  BY <1>1 DEF Owner
<1> QED
  BY <1>2, ExtendRow DEF FineAdd, Row

\* A row with a condition.
LEMMA AddWhen ==
  ASSUME NEW c, NEW f, NEW t \in Names, NEW p, NEW q, FineRow(c, f, t, q)
  PROVE  /\ FineAdd(c, f, Row(t, When(p, q))) /\ FineRow(c, f, t, When(p, q))
         /\ Plain(q) => Plain(When(p, q))
  BY EmptyRow DEF FineAdd, Row, When

\* A row with more than one part.
LEMMA AddParts ==
  ASSUME NEW c, NEW f, NEW t \in Names, NEW p, NEW q,
         FineRow(c, f, t, p), FineRow(c, f, t, q), Plain(q)
  PROVE  /\ FineAdd(c, f, Row(t, p \o q)) /\ FineRow(c, f, t, p \o q)
  BY FollowedRow DEF FineAdd, Row

\* The stock rows are fine.
LEMMA StockActionsFine ==
  ASSUME NEW c, NEW f \in Flags
  PROVE  \A r \in StockActions : FineAdd(c, f, r)
<1>1. FineAdd(c, f, Row("deploy", InvokeAll(<<"deploy:starting", "deploy:started",
              "deploy:updating", "deploy:updated", "deploy:publishing", "deploy:published",
              "deploy:finishing", "deploy:finished">>)))
  <2> DEFINE q == <<"deploy:starting", "deploy:started", "deploy:updating",
                  "deploy:updated", "deploy:publishing", "deploy:published",
                  "deploy:finishing", "deploy:finished">>
  <2>1. q \in Seq({"deploy:starting", "deploy:started", "deploy:updating",
                  "deploy:updated", "deploy:publishing", "deploy:published",
                  "deploy:finishing", "deploy:finished"})
    OBVIOUS
  <2>2. \A i \in DOMAIN q : MayInvoke(c, f, "deploy", q[i])
    BY DEF MayInvoke, PlatformTasks, OtherDump, Dumps, BaseTasks, Names, OfPlatform, Flags
  <2>3. "deploy" \in Names
    BY DEF Names, BaseTasks
  <2>4. FineAdd(c, f, Row("deploy", InvokeAll(q)))
    <3> HIDE DEF q
    <3> QED
      BY <2>1, <2>2, <2>3, AddInvoke DEF PlainAdd
  <2> QED
    BY <2>4
<1>2. FineAdd(c, f, Row("deploy:rollback", InvokeAll(<<"deploy:starting", "deploy:started",
              "deploy:reverting", "deploy:reverted", "deploy:publishing",
              "deploy:published", "deploy:finishing_rollback", "deploy:finished">>)))
  <2> DEFINE q == <<"deploy:starting", "deploy:started", "deploy:reverting",
                  "deploy:reverted", "deploy:publishing", "deploy:published",
                  "deploy:finishing_rollback", "deploy:finished">>
  <2>1. q \in Seq({"deploy:starting", "deploy:started", "deploy:reverting",
                  "deploy:reverted", "deploy:publishing", "deploy:published",
                  "deploy:finishing_rollback", "deploy:finished"})
    OBVIOUS
  <2>2. \A i \in DOMAIN q : MayInvoke(c, f, "deploy:rollback", q[i])
    BY DEF MayInvoke, PlatformTasks, OtherDump, Dumps, BaseTasks, Names, OfPlatform, Flags
  <2>3. "deploy:rollback" \in Names
    BY DEF Names, BaseTasks
  <2>4. FineAdd(c, f, Row("deploy:rollback", InvokeAll(q)))
    <3> HIDE DEF q
    <3> QED
      BY <2>1, <2>2, <2>3, AddInvoke DEF PlainAdd
  <2> QED
    BY <2>4
<1>3. FineAdd(c, f, Row("deploy:starting", InvokeAll(<<"deploy:check">>)))
  BY AddInvokeOne DEF PlainAdd, MayInvoke, PlatformTasks, OtherDump, Dumps, OfPlatform,
        BaseTasks, Names
<1>4. FineAdd(c, f, Row("deploy:check", InvokeAll(<<"rsync:check">>)))
  BY AddInvokeOne DEF PlainAdd, MayInvoke, PlatformTasks, OtherDump, Dumps, OfPlatform,
        BaseTasks, Names
<1>5. FineAdd(c, f, Row("deploy:new_release_path", Ops(<<"newpath">>)))
  BY AddStep DEF StepOwner, OtherDump, Dumps, OfPlatform, Names, AllSteps, StepNames, BaseTasks
<1>6. FineAdd(c, f, Row("deploy:updating", InvokeAll(<<"rsync:create_release",
              "rsync:set_current_revision">>)))
  BY AddInvokeTwo DEF PlainAdd, MayInvoke, PlatformTasks, OtherDump, Dumps, OfPlatform,
        BaseTasks, Names
<1>7. FineAdd(c, f, Row("deploy:reverting", InvokeAll(<<"deploy:revert_release">>)))
  BY AddInvokeOne DEF PlainAdd, MayInvoke, PlatformTasks, OtherDump, Dumps, OfPlatform,
        BaseTasks, Names
<1>8. FineAdd(c, f, Row("deploy:rollback_release_path", Ops(<<"pick">>)))
  BY AddStep DEF StepOwner, OtherDump, Dumps, OfPlatform, Names, AllSteps, StepNames, BaseTasks
<1>9. FineAdd(c, f, Row("deploy:publishing", InvokeAll(<<"deploy:symlink:release">>)))
  BY AddInvokeOne DEF PlainAdd, MayInvoke, PlatformTasks, OtherDump, Dumps, OfPlatform,
        BaseTasks, Names
<1>10. FineAdd(c, f, Row("deploy:symlink:release", Ops(<<"link">>)))
  BY AddStep DEF StepOwner, OtherDump, Dumps, OfPlatform, Names, AllSteps, StepNames, BaseTasks
<1>11. FineAdd(c, f, Row("deploy:finishing", InvokeAll(<<"deploy:cleanup">>)))
  BY AddInvokeOne DEF PlainAdd, MayInvoke, PlatformTasks, OtherDump, Dumps, OfPlatform,
        BaseTasks, Names
<1>12. FineAdd(c, f, Row("deploy:finishing_rollback", InvokeAll(<<"deploy:cleanup_rollback">>)))
  BY AddInvokeOne DEF PlainAdd, MayInvoke, PlatformTasks, OtherDump, Dumps, OfPlatform,
        BaseTasks, Names
<1>13. \A t \in {"deploy:started", "deploy:updated", "deploy:reverted", "deploy:published",
       "deploy:finished", "deploy:revert_release"} : FineAdd(c, f, Row(t, <<>>))
  BY AddNone DEF PlainAdd, Names, BaseTasks
<1> QED
  BY <1>1, <1>2, <1>3, <1>4, <1>5, <1>6, <1>7, <1>8, <1>9, <1>10, <1>11, <1>12, <1>13
      DEF StockActions

\* Those of web.rake are fine.
LEMMA WebActionsFine ==
  ASSUME NEW c, NEW f \in Flags
  PROVE  \A r \in WebActions(f) : FineAdd(c, f, r)
<1>1. FineAdd(c, f, Row("web:load_platform", <<Extend("platform")>>))
  BY AddExtend DEF HooksOwner, Names, BaseTasks
<1>2. FineAdd(c, f, Row("web:add_build", <<Extend("build")>>))
  BY AddExtend DEF HooksOwner, Names, BaseTasks
<1>3. FineAdd(c, f, Row("web:run_build", When(~f.unstaged, InvokeAll(<<"web:build">>))))
  <2>1. FineRow(c, f, "web:run_build", InvokeAll(<<"web:build">>)) /\ "web:run_build" \in Names
    BY AddInvokeOne DEF MayInvoke, PlatformTasks, OtherDump, Dumps, OfPlatform,
        BaseTasks, Names
  <2> QED
    BY <2>1, AddWhen
<1>4. FineAdd(c, f, Row("web:build", Ops(<<"build">>)))
  BY AddStep DEF StepOwner, OtherDump, Dumps, OfPlatform, Names, AllSteps, StepNames, BaseTasks
<1>5. FineAdd(c, f, Row("web:varnish:ban", Ops(<<"ban">>)))
  BY AddStep DEF StepOwner, OtherDump, Dumps, OfPlatform, Names, AllSteps, StepNames, BaseTasks
<1>6. FineAdd(c, f, Row("web:restart", InvokeAll(<<"web:varnish:ban">>)))
  BY AddInvokeOne DEF PlainAdd, MayInvoke, PlatformTasks, OtherDump, Dumps, OfPlatform,
        BaseTasks, Names
<1>7. FineAdd(c, f, Row("deploy:install", InvokeAll(<<OfPlatform(f, "drupal:install",
              "wordpress:install"), "deploy:published", "deploy:finishing",
              "deploy:finished">>)))
  <2> DEFINE q == <<OfPlatform(f, "drupal:install", "wordpress:install"),
                  "deploy:published", "deploy:finishing", "deploy:finished">>
  <2>1. q \in Seq({OfPlatform(f, "drupal:install", "wordpress:install"),
                  "deploy:published", "deploy:finishing", "deploy:finished"})
    OBVIOUS
  <2>2. \A i \in DOMAIN q : MayInvoke(c, f, "deploy:install", q[i])
    BY DEF MayInvoke, PlatformTasks, OtherDump, Dumps, BaseTasks, Names, OfPlatform, Flags
  <2>3. "deploy:install" \in Names
    BY DEF Names, BaseTasks
  <2>4. FineAdd(c, f, Row("deploy:install", InvokeAll(q)))
    <3> HIDE DEF q
    <3> QED
      BY <2>1, <2>2, <2>3, AddInvoke DEF PlainAdd
  <2> QED
    BY <2>4
<1>8. FineAdd(c, f, Row("deploy:symlink:release",
              InvokeAll(<<"deploy:symlink:web", "deploy:symlink:settings">>)))
  BY AddInvokeTwo DEF PlainAdd, MayInvoke, PlatformTasks, OtherDump, Dumps, OfPlatform,
        BaseTasks, Names
<1>9. FineAdd(c, f, Row("deploy:symlink:web", Ops(<<"web">>)))
  BY AddStep DEF StepOwner, OtherDump, Dumps, OfPlatform, Names, AllSteps, StepNames, BaseTasks
<1>10. FineAdd(c, f, Row("deploy:symlink:settings",
               InvokeAll(<<OfPlatform(f, "drupal:settings", "wordpress:settings")>>)))
  <2>1. MayInvoke(c, f, "deploy:symlink:settings",
        OfPlatform(f, "drupal:settings", "wordpress:settings"))
    BY DEF MayInvoke, PlatformTasks, OtherDump, Dumps, BaseTasks, Names, OfPlatform, Flags
  <2>2. "deploy:symlink:settings" \in Names
    BY DEF Names, BaseTasks
  <2> QED
    BY <2>1, <2>2, AddInvokeOne DEF PlainAdd
<1>11. FineAdd(c, f, Row("deploy:cleanup", Ops(<<"cleanup">>)))
  BY AddStep DEF StepOwner, OtherDump, Dumps, OfPlatform, Names, AllSteps, StepNames, BaseTasks
<1>12. FineAdd(c, f, Row("deploy:cleanup_rollback", Ops(<<"archive">>)))
  BY AddStep DEF StepOwner, OtherDump, Dumps, OfPlatform, Names, AllSteps, StepNames, BaseTasks
<1> QED
  BY <1>1, <1>2, <1>3, <1>4, <1>5, <1>6, <1>7, <1>8, <1>9, <1>10, <1>11, <1>12 DEF WebActions

\* Those of rsync.rb are fine.
LEMMA RsyncActionsFine ==
  ASSUME NEW c, NEW f \in Flags
  PROVE  \A r \in RsyncActions(f) : FineAdd(c, f, r)
<1>1. FineAdd(c, f, Row("rsync:hook_scm", <<Extend("scm")>>))
  BY AddExtend DEF HooksOwner, Names, BaseTasks
<1>2. FineAdd(c, f, Row("rsync:stage", When(~f.unstaged, Ops(<<"stage">>))))
  <2>1. FineRow(c, f, "rsync:stage", Ops(<<"stage">>)) /\ "rsync:stage" \in Names
    BY AddStep DEF StepOwner, OtherDump, Dumps, OfPlatform, Names, AllSteps, StepNames, BaseTasks
  <2> QED
    BY <2>1, AddWhen
<1>3. FineAdd(c, f, Row("rsync", Ops(<<"rsync">>)))
  BY AddStep DEF StepOwner, OtherDump, Dumps, OfPlatform, Names, AllSteps, StepNames, BaseTasks
<1>4. FineAdd(c, f, Row("rsync:release", Ops(<<"copy">>)))
  BY AddStep DEF StepOwner, OtherDump, Dumps, OfPlatform, Names, AllSteps, StepNames, BaseTasks
<1>5. \A t \in {"rsync:check", "rsync:create_stage", "rsync:create_release",
      "rsync:set_current_revision"} : FineAdd(c, f, Row(t, <<>>))
  BY AddNone DEF PlainAdd, Names, BaseTasks
<1> QED
  BY <1>1, <1>2, <1>3, <1>4, <1>5 DEF RsyncActions

\* Those of drush.rake are fine.
LEMMA DrushActionsFine ==
  ASSUME NEW c, NEW f \in Flags
  PROVE  \A r \in DrushActions(f) : FineAdd(c, f, r)
<1>1. FineAdd(c, f, Row("drush:initialize", InvokeAll(<<"drush:drushdir", "drush:aliases">>)))
  BY AddInvokeTwo DEF PlainAdd, MayInvoke, PlatformTasks, OtherDump, Dumps, OfPlatform,
        BaseTasks, Names
<1>2. FineAdd(c, f, Row("drush:drushdir", Ops(<<"drushdir">>)))
  BY AddStep DEF StepOwner, OtherDump, Dumps, OfPlatform, Names, AllSteps, StepNames, BaseTasks
<1>3. FineAdd(c, f, Row("drush:aliases", Ops(<<"aliases">>)))
  BY AddStep DEF StepOwner, OtherDump, Dumps, OfPlatform, Names, AllSteps, StepNames, BaseTasks
<1>4. FineAdd(c, f, Row("drush:siteinstall", Ops(<<"install">>)))
  BY AddStep DEF StepOwner, OtherDump, Dumps, OfPlatform, Names, AllSteps, StepNames, BaseTasks
<1>5. FineAdd(c, f, Row("drush:sqlsync", Ops(<<"sqlsync">>) \o InvokeAll(<<"drush:update">>)))
  <2>1. FineRow(c, f, "drush:sqlsync", Ops(<<"sqlsync">>)) /\ "drush:sqlsync" \in Names
    BY AddStep DEF StepOwner, OtherDump, Dumps, OfPlatform, Names, AllSteps, StepNames, BaseTasks
  <2>2. FineRow(c, f, "drush:sqlsync", InvokeAll(<<"drush:update">>)) /\
        Plain(InvokeAll(<<"drush:update">>))
    BY <2>1, AddInvokeOne DEF MayInvoke, PlatformTasks, OtherDump, Dumps, OfPlatform,
        BaseTasks, Names
  <2> QED
    BY <2>1, <2>2, AddParts
<1>6. FineAdd(c, f, Row("drush:rsync", Ops(<<"files">>)))
  BY AddStep DEF StepOwner, OtherDump, Dumps, OfPlatform, Names, AllSteps, StepNames, BaseTasks
<1>7. FineAdd(c, f, Row("drush:sqldump", Ops(<<"dump">>)))
  BY AddStep DEF StepOwner, OtherDump, Dumps, OfPlatform, Names, AllSteps, StepNames, BaseTasks
<1>8. FineAdd(c, f, Row("drush:updatedb", Ops(<<"updatedb">>)))
  BY AddStep DEF StepOwner, OtherDump, Dumps, OfPlatform, Names, AllSteps, StepNames, BaseTasks
<1>9. FineAdd(c, f, Row("drush:cc", Ops(<<"cc">>)))
  BY AddStep DEF StepOwner, OtherDump, Dumps, OfPlatform, Names, AllSteps, StepNames, BaseTasks
<1>10. FineAdd(c, f, Row("drush:update", When(f.updates,
               InvokeAll(<<"drush:updatedb">>)) \o InvokeAll(<<"drush:cc">>) \o
               When(f.features, InvokeAll(<<"drush:features:revert">>)) \o
               When(f.cmi, InvokeAll(<<"drush:configuration:sync">>))))
  <2> DEFINE p1 == When(f.updates, InvokeAll(<<"drush:updatedb">>))
             p2 == InvokeAll(<<"drush:cc">>)
             p3 == When(f.features, InvokeAll(<<"drush:features:revert">>))
             p4 == When(f.cmi, InvokeAll(<<"drush:configuration:sync">>))
  <2>1. /\ FineRow(c, f, "drush:update", InvokeAll(<<"drush:updatedb">>))
        /\ FineRow(c, f, "drush:update", p2) /\ Plain(p2) /\ "drush:update" \in Names
    BY AddInvokeOne DEF MayInvoke, PlatformTasks, OtherDump, Dumps, OfPlatform,
        BaseTasks, Names
  <2>2. /\ FineRow(c, f, "drush:update", InvokeAll(<<"drush:features:revert">>))
        /\ Plain(InvokeAll(<<"drush:features:revert">>))
    BY AddInvokeOne DEF MayInvoke, PlatformTasks, OtherDump, Dumps, OfPlatform,
        BaseTasks, Names
  <2>3. /\ FineRow(c, f, "drush:update", InvokeAll(<<"drush:configuration:sync">>))
        /\ Plain(InvokeAll(<<"drush:configuration:sync">>))
    BY AddInvokeOne DEF MayInvoke, PlatformTasks, OtherDump, Dumps, OfPlatform,
        BaseTasks, Names
  <2>4. FineRow(c, f, "drush:update", p1)
    BY <2>1, AddWhen
  <2>5. FineRow(c, f, "drush:update", p3) /\ Plain(p3)
    BY <2>1, <2>2, AddWhen
  <2>6. FineRow(c, f, "drush:update", p4) /\ Plain(p4)
    BY <2>1, <2>3, AddWhen
  <2>7. FineAdd(c, f, Row("drush:update", p1 \o p2 \o p3 \o p4))
    <3> HIDE DEF p1, p2, p3, p4
    <3>1. FineRow(c, f, "drush:update", p1 \o p2)
      BY <2>1, <2>4, FollowedRow
    <3>2. FineRow(c, f, "drush:update", (p1 \o p2) \o p3)
      BY <2>5, <3>1, FollowedRow
    <3> QED
      BY <2>1, <2>6, <3>2, AddParts
  <2> QED
    BY <2>7
<1>11. FineAdd(c, f, Row("drush:configuration:sync", Ops(<<"config">>) \o
               InvokeAll(<<"drush:cc">>)))
  <2>1. FineRow(c, f, "drush:configuration:sync", Ops(<<"config">>)) /\
        "drush:configuration:sync" \in Names
    BY AddStep DEF StepOwner, OtherDump, Dumps, OfPlatform, Names, AllSteps, StepNames, BaseTasks
  <2>2. FineRow(c, f, "drush:configuration:sync", InvokeAll(<<"drush:cc">>)) /\
        Plain(InvokeAll(<<"drush:cc">>))
    BY <2>1, AddInvokeOne DEF MayInvoke, PlatformTasks, OtherDump, Dumps, OfPlatform,
        BaseTasks, Names
  <2> QED
    BY <2>1, <2>2, AddParts
<1>12. FineAdd(c, f, Row("drush:features:revert", Ops(<<"features">>) \o
               InvokeAll(<<"drush:cc">>)))
  <2>1. FineRow(c, f, "drush:features:revert", Ops(<<"features">>)) /\
        "drush:features:revert" \in Names
    BY AddStep DEF StepOwner, OtherDump, Dumps, OfPlatform, Names, AllSteps, StepNames, BaseTasks
  <2>2. FineRow(c, f, "drush:features:revert", InvokeAll(<<"drush:cc">>)) /\
        Plain(InvokeAll(<<"drush:cc">>))
    BY <2>1, AddInvokeOne DEF MayInvoke, PlatformTasks, OtherDump, Dumps, OfPlatform,
        BaseTasks, Names
  <2> QED
    BY <2>1, <2>2, AddParts
<1>13. FineAdd(c, f, Row("drush:sapi:reindex", Ops(<<"sapi">>) \o InvokeAll(<<"drush:cc">>)))
  <2>1. FineRow(c, f, "drush:sapi:reindex", Ops(<<"sapi">>)) /\ "drush:sapi:reindex" \in Names
    BY AddStep DEF StepOwner, OtherDump, Dumps, OfPlatform, Names, AllSteps, StepNames, BaseTasks
  <2>2. FineRow(c, f, "drush:sapi:reindex", InvokeAll(<<"drush:cc">>)) /\
        Plain(InvokeAll(<<"drush:cc">>))
    BY <2>1, AddInvokeOne DEF MayInvoke, PlatformTasks, OtherDump, Dumps, OfPlatform,
        BaseTasks, Names
  <2> QED
    BY <2>1, <2>2, AddParts
<1> QED
  BY <1>1, <1>2, <1>3, <1>4, <1>5, <1>6, <1>7, <1>8, <1>9, <1>10, <1>11, <1>12, <1>13
      DEF DrushActions

\* Those of wpcli.rake are fine.
LEMMA WpcliActionsFine ==
  ASSUME NEW c, NEW f \in Flags
  PROVE  \A r \in WpcliActions(f) : FineAdd(c, f, r)
<1>1. FineAdd(c, f, Row("wpcli:dbexport", Ops(<<"dump">>)))
  BY AddStep DEF StepOwner, OtherDump, Dumps, OfPlatform, Names, AllSteps, StepNames, BaseTasks
<1>2. FineAdd(c, f, Row("wpcli:wpcfm:pull", Ops(<<"wpcfm">>)))
  BY AddStep DEF StepOwner, OtherDump, Dumps, OfPlatform, Names, AllSteps, StepNames, BaseTasks
<1>3. FineAdd(c, f, Row("wpcli:update", When(f.wpcfm, InvokeAll(<<"wpcli:wpcfm:pull">>))))
  <2>1. FineRow(c, f, "wpcli:update", InvokeAll(<<"wpcli:wpcfm:pull">>)) /\
        "wpcli:update" \in Names
    BY AddInvokeOne DEF MayInvoke, PlatformTasks, OtherDump, Dumps, OfPlatform,
        BaseTasks, Names
  <2> QED
    BY <2>1, AddWhen
<1> QED
  BY <1>1, <1>2, <1>3 DEF WpcliActions

\* A row with two steps.
LEMMA StepsRow2 ==
  ASSUME NEW c, NEW f, NEW t, NEW a \in Names, NEW b \in Names, a # b,
         StepOwner(c, f, a) = t, StepOwner(c, f, b) = t
  PROVE  FineRow(c, f, t, Ops(<<a, b>>))
<1>1. /\ Op(a) \in Items /\ Op(b) \in Items /\ Op(a) # Op(b)
      /\ FineItem(c, f, t, Op(a)) /\ FineItem(c, f, t, Op(b))
  BY DEF Op, Items, FineItem, Steps, Owner
<1>2. /\ DOMAIN Ops(<<a, b>>) = 1..2
      /\ Ops(<<a, b>>)[1] = Op(a) /\ Ops(<<a, b>>)[2] = Op(b)
      /\ Ops(<<a, b>>) \in [1..2 -> {Op(a), Op(b)}]
  BY DEF Ops
<1>3. Ops(<<a, b>>) \in Seq(Items)
  BY <1>1, <1>2, 2 \in Nat, FunctionIsSeq
<1>4. \A i \in 1..2 : i = 1 \/ i = 2
  OBVIOUS
<1>5. \A i \in DOMAIN Ops(<<a, b>>) : FineItem(c, f, t, Ops(<<a, b>>)[i])
  BY <1>1, <1>2, <1>4
<1>6. \A i, j \in DOMAIN Ops(<<a, b>>) : Ops(<<a, b>>)[i] = Ops(<<a, b>>)[j] => i = j
  BY <1>1, <1>2, <1>4
<1> QED
  BY <1>3, <1>5, <1>6 DEF FineRow

\* A row with three.
LEMMA StepsRow3 ==
  ASSUME NEW c, NEW f, NEW t, NEW a \in Names, NEW b \in Names, NEW d \in Names,
         a # b, a # d, b # d,
         StepOwner(c, f, a) = t, StepOwner(c, f, b) = t, StepOwner(c, f, d) = t
  PROVE  FineRow(c, f, t, Ops(<<a, b, d>>))
<1>1. /\ Op(a) \in Items /\ Op(b) \in Items /\ Op(d) \in Items
      /\ Op(a) # Op(b) /\ Op(a) # Op(d) /\ Op(b) # Op(d)
      /\ FineItem(c, f, t, Op(a)) /\ FineItem(c, f, t, Op(b)) /\ FineItem(c, f, t, Op(d))
  BY DEF Op, Items, FineItem, Steps, Owner
<1>2. /\ DOMAIN Ops(<<a, b, d>>) = 1..3
      /\ Ops(<<a, b, d>>)[1] = Op(a) /\ Ops(<<a, b, d>>)[2] = Op(b)
      /\ Ops(<<a, b, d>>)[3] = Op(d)
      /\ Ops(<<a, b, d>>) \in [1..3 -> {Op(a), Op(b), Op(d)}]
  BY DEF Ops
<1>3. Ops(<<a, b, d>>) \in Seq(Items)
  BY <1>1, <1>2, 3 \in Nat, FunctionIsSeq
<1>4. \A i \in 1..3 : i = 1 \/ i = 2 \/ i = 3
  OBVIOUS
<1>5. \A i \in DOMAIN Ops(<<a, b, d>>) : FineItem(c, f, t, Ops(<<a, b, d>>)[i])
  BY <1>1, <1>2, <1>4
<1>6. \A i, j \in DOMAIN Ops(<<a, b, d>>) : Ops(<<a, b, d>>)[i] = Ops(<<a, b, d>>)[j] => i = j
  BY <1>1, <1>2, <1>4
<1> QED
  BY <1>3, <1>5, <1>6 DEF FineRow

\* The actions that capistrano/drupal.rb adds are fine; only to its own tasks does it
\* add steps; and unless the command is a dump, it does not call the other dump.
LEMMA DrupalActionsFine ==
  ASSUME NEW c, NEW f \in Flags, f.platform = "drupal", c \notin Dumps
  PROVE  \A r \in DrupalHooks.actions : /\ FineAdd(c, f, r)
                                        /\ r.task \in PlatformTasks(f) \/ Plain(r.adds)
<1> DEFINE Hook(r) == FineAdd(c, f, r) /\ (r.task \in PlatformTasks(f) \/ Plain(r.adds))
<1>1. Hook(Row("deploy:rollback_release_path", InvokeAll(<<"drupal:revert_database">>)))
  <2>1. MayInvoke(c, f, "deploy:rollback_release_path", "drupal:revert_database") /\
        "deploy:rollback_release_path" \in Names
    BY DEF MayInvoke, PlatformTasks, OtherDump, Dumps, OfPlatform,
        BaseTasks, Names
  <2> QED
    BY <2>1, AddInvokeOne DEF PlainAdd, Row
<1>2. Hook(Row("deploy:published", InvokeAll(<<"drush:update">>)))
  <2>1. MayInvoke(c, f, "deploy:published", "drush:update") /\ "deploy:published" \in Names
    BY DEF MayInvoke, PlatformTasks, OtherDump, Dumps, OfPlatform,
        BaseTasks, Names
  <2> QED
    BY <2>1, AddInvokeOne DEF PlainAdd, Row
<1>3. Hook(Row("drupal:install", InvokeAll(<<"drush:siteinstall">>)))
  <2>1. MayInvoke(c, f, "drupal:install", "drush:siteinstall") /\ "drupal:install" \in Names
    BY DEF MayInvoke, PlatformTasks, OtherDump, Dumps, OfPlatform,
        BaseTasks, Names
  <2> QED
    BY <2>1, AddInvokeOne DEF PlainAdd, Row
<1>4. Hook(Row("drupal:settings", Ops(<<"settings">>)))
  <2>1. "drupal:settings" \in Names /\ "drupal:settings" \in PlatformTasks(f) /\
        "settings" \in Names
    BY DEF Names, PlatformTasks, AllSteps, StepNames
  <2>2. StepOwner(c, f, "settings") = "drupal:settings"
    BY DEF StepOwner, OfPlatform
  <2> QED
    BY <2>1, <2>2, AddStep DEF Row
<1>5. Hook(Row("drupal:revert_database", Ops(<<"gunzip", "drop", "import">>)))
  <2>1. "drupal:revert_database" \in Names /\ "drupal:revert_database" \in PlatformTasks(f)
    BY DEF Names, PlatformTasks
  <2>2. \A s \in {"gunzip", "drop", "import"} : s \in Names /\ StepOwner(c, f, s) =
        "drupal:revert_database"
    BY DEF StepOwner, OfPlatform, Names, AllSteps, StepNames, Flags
  <2>3. FineRow(c, f, "drupal:revert_database", Ops(<<"gunzip", "drop", "import">>))
    BY <2>2, StepsRow3
  <2> QED
    BY <2>1, <2>3 DEF FineAdd, Row
<1>6. Hook(Row("drupal:dbbackup", InvokeAll(<<"drush:sqldump">>)))
  <2>1. MayInvoke(c, f, "drupal:dbbackup", "drush:sqldump") /\ "drupal:dbbackup" \in Names
    BY DEF MayInvoke, PlatformTasks, OtherDump, Dumps, OfPlatform,
        BaseTasks, Names
  <2> QED
    BY <2>1, AddInvokeOne DEF PlainAdd, Row
<1> QED
  BY <1>1, <1>2, <1>3, <1>4, <1>5, <1>6 DEF DrupalHooks

\* So are those of wordpress.rb.
LEMMA WordpressActionsFine ==
  ASSUME NEW c, NEW f \in Flags,
         f.platform = "wordpress", c \notin Dumps
  PROVE  \A r \in WordpressHooks.actions : /\ FineAdd(c, f, r)
                                           /\ r.task \in PlatformTasks(f) \/ Plain(r.adds)
<1> DEFINE Hook(r) == FineAdd(c, f, r) /\ (r.task \in PlatformTasks(f) \/ Plain(r.adds))
<1>1. Hook(Row("deploy:rollback_release_path", InvokeAll(<<"wordpress:revert_database">>)))
  <2>1. MayInvoke(c, f, "deploy:rollback_release_path", "wordpress:revert_database") /\
        "deploy:rollback_release_path" \in Names
    BY DEF MayInvoke, PlatformTasks, OtherDump, Dumps, OfPlatform,
        BaseTasks, Names
  <2> QED
    BY <2>1, AddInvokeOne DEF PlainAdd, Row
<1>2. Hook(Row("deploy:published", InvokeAll(<<"wpcli:update">>)))
  <2>1. MayInvoke(c, f, "deploy:published", "wpcli:update") /\ "deploy:published" \in Names
    BY DEF MayInvoke, PlatformTasks, OtherDump, Dumps, OfPlatform,
        BaseTasks, Names
  <2> QED
    BY <2>1, AddInvokeOne DEF PlainAdd, Row
<1>3. Hook(Row("wordpress:settings", Ops(<<"settings">>)))
  <2>1. "wordpress:settings" \in Names /\ "wordpress:settings" \in PlatformTasks(f) /\
        "settings" \in Names
    BY DEF Names, PlatformTasks, AllSteps, StepNames
  <2>2. StepOwner(c, f, "settings") = "wordpress:settings"
    BY DEF StepOwner, OfPlatform
  <2> QED
    BY <2>1, <2>2, AddStep DEF Row
<1>4. Hook(Row("wordpress:dbbackup", InvokeAll(<<"wpcli:dbexport">>)))
  <2>1. MayInvoke(c, f, "wordpress:dbbackup", "wpcli:dbexport") /\
        "wordpress:dbbackup" \in Names
    BY DEF MayInvoke, PlatformTasks, OtherDump, Dumps, OfPlatform,
        BaseTasks, Names
  <2> QED
    BY <2>1, AddInvokeOne DEF PlainAdd, Row
<1>5. Hook(Row("wordpress:revert_database", Ops(<<"gunzip", "import">>)))
  <2>1. "wordpress:revert_database" \in Names /\
        "wordpress:revert_database" \in PlatformTasks(f)
    BY DEF Names, PlatformTasks
  <2>2. \A s \in {"gunzip", "import"} : s \in Names /\ StepOwner(c, f, s) =
        "wordpress:revert_database"
    BY DEF StepOwner, OfPlatform, Names, AllSteps, StepNames, Flags
  <2>3. FineRow(c, f, "wordpress:revert_database", Ops(<<"gunzip", "import">>))
    BY <2>2, StepsRow2
  <2> QED
    BY <2>1, <2>3 DEF FineAdd, Row
<1> QED
  BY <1>1, <1>2, <1>3, <1>4, <1>5 DEF WordpressHooks

\* So are those of rsync:hook_scm.
LEMMA ScmActionsFine ==
  ASSUME NEW c, NEW f \in Flags
  PROVE  \A r \in ScmHooks.actions : /\ FineAdd(c, f, r)
                                     /\ r.task \in PlatformTasks(f) \/ Plain(r.adds)
<1> DEFINE Hook(r) == FineAdd(c, f, r) /\ (r.task \in PlatformTasks(f) \/ Plain(r.adds))
<1>1. Hook(Row("rsync:check", InvokeAll(<<"rsync:check">>)))
  <2>1. MayInvoke(c, f, "rsync:check", "rsync:check") /\ "rsync:check" \in Names
    BY DEF MayInvoke, PlatformTasks, OtherDump, Dumps, OfPlatform,
        BaseTasks, Names
  <2> QED
    BY <2>1, AddInvokeOne DEF PlainAdd, Row
<1>2. Hook(Row("rsync:create_release", InvokeAll(<<"rsync:release">>)))
  <2>1. MayInvoke(c, f, "rsync:create_release", "rsync:release") /\
        "rsync:create_release" \in Names
    BY DEF MayInvoke, PlatformTasks, OtherDump, Dumps, OfPlatform,
        BaseTasks, Names
  <2> QED
    BY <2>1, AddInvokeOne DEF PlainAdd, Row
<1> QED
  BY <1>1, <1>2 DEF ScmHooks

\* So is that of web:add_build.
LEMMA BuildActionsFine ==
  ASSUME NEW c, NEW f \in Flags
  PROVE  \A r \in BuildHooks.actions : /\ FineAdd(c, f, r)
                                       /\ r.task \in PlatformTasks(f) \/ Plain(r.adds)
<1> DEFINE Hook(r) == FineAdd(c, f, r) /\ (r.task \in PlatformTasks(f) \/ Plain(r.adds))
<1>1. Hook(Row("rsync:stage", InvokeAll(<<"web:run_build">>)))
  <2>1. MayInvoke(c, f, "rsync:stage", "web:run_build") /\ "rsync:stage" \in Names
    BY DEF MayInvoke, PlatformTasks, OtherDump, Dumps, OfPlatform,
        BaseTasks, Names
  <2> QED
    BY <2>1, AddInvokeOne DEF PlainAdd, Row
<1> QED
  BY <1>1 DEF BuildHooks

\* A row of prerequisites that is fine.
NeedAdd(f, r) == r.task \in Names /\ FineNeeds(f, r.task, r.adds)

\* A row of prerequisites that the task may have.
LEMMA AddNeeds ==
  ASSUME NEW f, NEW t \in Names, NEW S, NEW q \in Seq(S), \A i \in DOMAIN q :
      MayNeed(f, t, q[i])
  PROVE  NeedAdd(f, Row(t, q))
<1>1. \A x : MayNeed(f, t, x) => x \in Names
  BY DEF MayNeed, Dumps, Names, BaseTasks
<1>2. q \in [1..Len(q) -> Names]
  BY <1>1
<1>3. q \in Seq(Names)
  BY <1>2
<1> QED
  BY <1>3 DEF NeedAdd, FineNeeds, Row

\* A row with one prerequisite.
LEMMA AddNeed ==
  ASSUME NEW f, NEW t \in Names, NEW a, MayNeed(f, t, a)
  PROVE  NeedAdd(f, Row(t, <<a>>))
<1>1. <<a>> \in Seq({a}) /\ \A i \in DOMAIN <<a>> : MayNeed(f, t, <<a>>[i])
  OBVIOUS
<1> QED
  BY <1>1, AddNeeds

\* The stock prerequisites and those of the project are fine.
LEMMA StockNeedsFine ==
  ASSUME NEW f
  PROVE  \A r \in StockPrereqs : NeedAdd(f, r)
<1>1. NeedAdd(f, Row("deploy:updating", <<"deploy:new_release_path">>))
  BY AddNeed DEF MayNeed, Dumps, Names, BaseTasks
<1>2. NeedAdd(f, Row("deploy:revert_release", <<"deploy:rollback_release_path">>))
  BY AddNeed DEF MayNeed, Dumps, Names, BaseTasks
<1> QED
  BY <1>1, <1>2 DEF StockPrereqs

\* Those of web.rake and rsync.rb are fine.
LEMMA ProjectNeedsFine ==
  ASSUME NEW f
  PROVE  \A r \in ProjectPrereqs : NeedAdd(f, r)
<1>1. NeedAdd(f, Row("deploy:finishing", <<"web:restart">>))
  BY AddNeed DEF MayNeed, Dumps, Names, BaseTasks
<1>2. NeedAdd(f, Row("deploy:updating", <<"web:add_build", "rsync:hook_scm">>))
  <2> DEFINE q == <<"web:add_build", "rsync:hook_scm">>
  <2>1. q \in Seq({"web:add_build", "rsync:hook_scm"})
    OBVIOUS
  <2>2. \A i \in DOMAIN q : MayNeed(f, "deploy:updating", q[i])
    BY DEF MayNeed, Dumps
  <2>3. "deploy:updating" \in Names
    BY DEF Names, BaseTasks
  <2> QED
    BY <2>1, <2>2, <2>3, AddNeeds
<1>3. NeedAdd(f, Row("deploy:starting", <<"web:load_platform">>))
  BY AddNeed DEF MayNeed, Dumps, Names, BaseTasks
<1>4. NeedAdd(f, Row("deploy:check", <<"rsync:hook_scm">>))
  BY AddNeed DEF MayNeed, Dumps, Names, BaseTasks
<1>5. NeedAdd(f, Row("deploy:install",
                     <<"deploy:check", "deploy:starting", "deploy:started",
                       "deploy:updating", "deploy:updated", "deploy:publishing">>))
  <2> DEFINE q == <<"deploy:check", "deploy:starting", "deploy:started",
                    "deploy:updating", "deploy:updated", "deploy:publishing">>
  <2>1. q \in Seq({"deploy:check", "deploy:starting", "deploy:started",
                   "deploy:updating", "deploy:updated", "deploy:publishing"})
    OBVIOUS
  <2>2. \A i \in DOMAIN q : MayNeed(f, "deploy:install", q[i])
    BY DEF MayNeed, Dumps
  <2>3. "deploy:install" \in Names
    BY DEF Names, BaseTasks
  <2>4. NeedAdd(f, Row("deploy:install", q))
    <3> HIDE DEF q
    <3> QED
      BY <2>1, <2>2, <2>3, AddNeeds
  <2> QED
    BY <2>4
<1>6. NeedAdd(f, Row("rsync:stage", <<"rsync:create_stage">>))
  BY AddNeed DEF MayNeed, Dumps, Names, BaseTasks
<1>7. NeedAdd(f, Row("rsync", <<"rsync:stage">>))
  BY AddNeed DEF MayNeed, Dumps, Names, BaseTasks
<1>8. NeedAdd(f, Row("rsync:release", <<"rsync">>))
  BY AddNeed DEF MayNeed, Dumps, Names, BaseTasks
<1>9. NeedAdd(f, Row("rsync:create_release", <<"rsync:release">>))
  BY AddNeed DEF MayNeed, Dumps, Names, BaseTasks
<1> QED
  BY <1>1, <1>2, <1>3, <1>4, <1>5, <1>6, <1>7, <1>8, <1>9 DEF ProjectPrereqs

\* Those that the platform adds are fine.
LEMMA PlatformNeedsFine ==
  ASSUME NEW f \in Flags
  PROVE  /\ f.platform = "drupal" => \A r \in DrupalHooks.prereqs : NeedAdd(f, r)
         /\ f.platform = "wordpress" => \A r \in WordpressHooks.prereqs : NeedAdd(f, r)
<1>1. CASE f.platform = "drupal"
  <2>1. NeedAdd(f, Row("deploy:publishing", <<"drupal:dbbackup">>))
    BY <1>1, AddNeed DEF MayNeed, Dumps, Names, BaseTasks
  <2>2. NeedAdd(f, Row("deploy:symlink:release", <<"drush:initialize">>))
    BY AddNeed DEF MayNeed, Dumps, Names, BaseTasks
  <2> QED
    BY <1>1, <2>1, <2>2 DEF DrupalHooks
<1>2. CASE f.platform = "wordpress"
  <2>1. NeedAdd(f, Row("deploy:published", <<"wordpress:dbbackup">>))
    BY <1>2, AddNeed DEF MayNeed, Dumps, Names, BaseTasks
  <2> QED
    BY <1>2, <2>1 DEF WordpressHooks
<1> QED
  BY <1>1, <1>2 DEF Flags

(***************************************************************************)
(* The tables.                                                             *)
(***************************************************************************)
\* What a file adds to a task is what one of its rows says.
LEMMA AddedIs ==
  ASSUME NEW rows, NEW t
  PROVE  \/ Added(rows, t) = <<>> /\ t \notin {r.task : r \in rows}
         \/ \E r \in rows : r.task = t /\ Added(rows, t) = r.adds
<1>1. CASE \E r \in rows : r.task = t
  <2> DEFINE r == CHOOSE r \in rows : r.task = t
  <2>1. r \in rows /\ r.task = t
    BY <1>1
  <2> QED
    BY <1>1, <2>1 DEF Added
<1> QED
  BY <1>1 DEF Added

\* The table of actions stays fine when fine rows are added that give steps only to
\* tasks not yet defined.
LEMMA EnhanceFine ==
  ASSUME NEW c, NEW f, NEW table, NEW rows, FineTable(c, f, table),
         \A r \in rows : FineAdd(c, f, r),
         \A r \in rows : r.task \in DOMAIN table => Plain(r.adds)
  PROVE  FineTable(c, f, Enhance(table, rows))
<1>1. DOMAIN Enhance(table, rows) = DOMAIN table \cup {r.task : r \in rows}
  BY DEF Enhance
<1>2. DOMAIN Enhance(table, rows) \subseteq Names
  BY <1>1 DEF FineTable, FineAdd
<1>3. ASSUME NEW t \in DOMAIN Enhance(table, rows)
      PROVE  FineRow(c, f, t, Entry(table, t) \o Added(rows, t))
  <2>1. FineRow(c, f, t, Entry(table, t))
    BY EmptyRow DEF Entry, FineTable
  <2>2. FineRow(c, f, t, Added(rows, t))
    BY AddedIs, EmptyRow DEF FineAdd
  <2>3. t \in DOMAIN table => Plain(Added(rows, t))
    BY AddedIs, EmptyRow
  <2>4. t \notin DOMAIN table => Entry(table, t) = <<>>
    BY DEF Entry
  <2> QED
    BY <2>1, <2>2, <2>3, <2>4, FollowedRow
<1>4. \A t \in DOMAIN Enhance(table, rows) :
         Enhance(table, rows)[t] = Entry(table, t) \o Added(rows, t)
  BY DEF Enhance
<1> QED
  BY <1>2, <1>3, <1>4 DEF FineTable

\* So does the table of prerequisites.
LEMMA EnhanceNeedsFine ==
  ASSUME NEW f, NEW table, NEW rows, FineNeedsTable(f, table),
         \A r \in rows : NeedAdd(f, r)
  PROVE  FineNeedsTable(f, Enhance(table, rows))
<1>0. \A t : FineNeeds(f, t, <<>>)
  BY DEF FineNeeds
<1>1. DOMAIN Enhance(table, rows) = DOMAIN table \cup {r.task : r \in rows}
  BY DEF Enhance
<1>2. DOMAIN Enhance(table, rows) \subseteq Names
  BY <1>1 DEF FineNeedsTable, NeedAdd
<1>3. ASSUME NEW t \in DOMAIN Enhance(table, rows)
      PROVE  FineNeeds(f, t, Entry(table, t) \o Added(rows, t))
  <2>1. FineNeeds(f, t, Entry(table, t))
    BY <1>0 DEF Entry, FineNeedsTable
  <2>2. FineNeeds(f, t, Added(rows, t))
    BY <1>0, AddedIs DEF NeedAdd
  <2>3. ASSUME NEW p, NEW q, FineNeeds(f, t, p), FineNeeds(f, t, q)
        PROVE  FineNeeds(f, t, p \o q)
    <3>1. p \in Seq(Names) /\ q \in Seq(Names)
      BY <2>3 DEF FineNeeds
    <3>2. p \o q \in Seq(Names) /\ DOMAIN (p \o q) = 1..(Len(p) + Len(q))
      BY <3>1
    <3>3. \A i \in DOMAIN (p \o q) : \/ i \in DOMAIN p /\ (p \o q)[i] = p[i]
                                     \/ /\ i - Len(p) \in DOMAIN q
                                        /\ (p \o q)[i] = q[i - Len(p)]
      BY <3>1
    <3> QED
      BY <2>3, <3>2, <3>3 DEF FineNeeds
  <2> QED
    BY <2>1, <2>2, <2>3
<1>4. \A t \in DOMAIN Enhance(table, rows) :
         Enhance(table, rows)[t] = Entry(table, t) \o Added(rows, t)
  BY DEF Enhance
<1> QED
  BY <1>2, <1>3, <1>4 DEF FineNeedsTable

\* The tasks of the stock rows, and which rows of the project are for one of them.
StockTasks ==
  {"deploy", "deploy:rollback", "deploy:starting", "deploy:check",
   "deploy:new_release_path", "deploy:updating", "deploy:reverting",
   "deploy:rollback_release_path", "deploy:publishing", "deploy:symlink:release",
   "deploy:finishing", "deploy:finishing_rollback", "deploy:started", "deploy:updated",
   "deploy:reverted", "deploy:published", "deploy:finished", "deploy:revert_release"}

\* The parts of a row.
LEMMA RowParts == \A t, q : Row(t, q).task = t /\ Row(t, q).adds = q
  BY DEF Row

\* The stock rows are those of the stock tasks.
LEMMA StockRows == {r.task : r \in StockActions} \subseteq StockTasks
<1>1. \A r \in StockActions : r.task \in StockTasks
  BY RowParts DEF StockActions, StockTasks
<1> QED
  BY <1>1

\* The project's rows add no steps to a stock task, and no row is a platform's.
LEMMA ProjectRows ==
  ASSUME NEW f \in Flags
  PROVE  \A r \in ProjectActions(f) :
           /\ r.task \in BaseTasks
           /\ r.task \in StockTasks => Plain(r.adds)
<1>1. \A r \in RsyncActions(f) : r.task \in BaseTasks /\ r.task \notin StockTasks
  BY RowParts DEF RsyncActions, StockTasks, BaseTasks
<1>2. \A r \in DrushActions(f) : r.task \in BaseTasks /\ r.task \notin StockTasks
  BY RowParts DEF DrushActions, StockTasks, BaseTasks
<1>3. \A r \in WpcliActions(f) : r.task \in BaseTasks /\ r.task \notin StockTasks
  BY RowParts DEF WpcliActions, StockTasks, BaseTasks
<1>4. \A q : Plain(InvokeAll(q))
  BY DEF Plain, InvokeAll, Invoke
<1>5. \A r \in WebActions(f) : /\ r.task \in BaseTasks
                               /\ r.task \in StockTasks => Plain(r.adds)
  BY <1>4, RowParts DEF WebActions, StockTasks, BaseTasks
<1> QED
  BY <1>1, <1>2, <1>3, <1>5 DEF ProjectActions

\* A command is one of the tasks that are there when it starts.
LEMMA CommandsDefined == Commands \subseteq BaseTasks
<1>1. StockTasks \subseteq BaseTasks
  BY DEF StockTasks, BaseTasks
<1> SUFFICES ASSUME NEW f \in Flags, NEW r \in StockActions \cup ProjectActions(f)
             PROVE  r.task \in BaseTasks
  BY DEF Commands
<1> QED
  BY <1>1, StockRows, ProjectRows

\* The tables a command starts with are fine.
LEMMA InitTables ==
  ASSUME NEW c, NEW f \in Flags
  PROVE  /\ FineTable(c, f, Enhance(Enhance(NoTasks, StockActions), ProjectActions(f)))
         /\ FineNeedsTable(f, Enhance(Enhance(NoTasks, StockPrereqs), ProjectPrereqs))
         /\ DOMAIN Enhance(Enhance(NoTasks, StockActions), ProjectActions(f))
               \subseteq BaseTasks
<1>1. FineTable(c, f, NoTasks) /\ FineNeedsTable(f, NoTasks) /\ DOMAIN NoTasks = {}
  BY DEF FineTable, FineNeedsTable, NoTasks
<1>2. FineTable(c, f, Enhance(NoTasks, StockActions))
  BY <1>1, StockActionsFine, EnhanceFine
<1>3. DOMAIN Enhance(NoTasks, StockActions) \subseteq StockTasks
  BY <1>1, StockRows DEF Enhance
<1>4. \A r \in ProjectActions(f) : FineAdd(c, f, r)
  BY WebActionsFine, RsyncActionsFine, DrushActionsFine, WpcliActionsFine DEF ProjectActions
<1>5. FineTable(c, f, Enhance(Enhance(NoTasks, StockActions), ProjectActions(f)))
  BY <1>2, <1>3, <1>4, ProjectRows, EnhanceFine
<1>6. FineNeedsTable(f, Enhance(NoTasks, StockPrereqs))
  BY <1>1, StockNeedsFine, EnhanceNeedsFine
<1>7. FineNeedsTable(f, Enhance(Enhance(NoTasks, StockPrereqs), ProjectPrereqs))
  BY <1>6, ProjectNeedsFine, EnhanceNeedsFine
<1>8. DOMAIN Enhance(Enhance(NoTasks, StockActions), ProjectActions(f))
         \subseteq StockTasks \cup {r.task : r \in ProjectActions(f)}
  BY <1>3 DEF Enhance
<1>9. StockTasks \subseteq BaseTasks
  BY DEF StockTasks, BaseTasks
<1> QED
  BY <1>5, <1>7, <1>8, <1>9, ProjectRows
(***************************************************************************)
(* The agenda.                                                             *)
(***************************************************************************)
\* x is in sequence q, and at one place only.
In(q, x) == \E i \in DOMAIN q : q[i] = x
Once(q, x) == \A i, j \in DOMAIN q : q[i] = x /\ q[j] = x => i = j

\* Agenda n is agenda a, its first thing replaced by those of b.
Spliced(a, b, n) ==
  /\ 1 \in DOMAIN a /\ Head(a) = a[1]
  /\ \A k \in DOMAIN n : \/ k \in DOMAIN b /\ n[k] = b[k]
                         \/ /\ k > Len(b) /\ k - Len(b) + 1 \in DOMAIN a
                            /\ n[k] = a[k - Len(b) + 1]
  /\ \A k \in DOMAIN b : k \in DOMAIN n /\ n[k] = b[k]
  /\ \A k \in DOMAIN a : k > 1 => /\ k + Len(b) - 1 \in DOMAIN n
                                  /\ n[k + Len(b) - 1] = a[k]

\* The first thing on an agenda makes place for others.
LEMMA Splice ==
  ASSUME NEW S, NEW a \in Seq(S), a # <<>>, NEW b \in Seq(S)
  PROVE  b \o Tail(a) \in Seq(S) /\ Spliced(a, b, b \o Tail(a))
<1>1. /\ Tail(a) \in Seq(S) /\ Len(Tail(a)) = Len(a) - 1 /\ Len(a) >= 1
      /\ \A k \in 1..(Len(a) - 1) : Tail(a)[k] = a[k + 1]
      /\ DOMAIN a = 1..Len(a) /\ Len(a) \in Nat
  OBVIOUS
<1>2. /\ b \o Tail(a) \in Seq(S) /\ Len(b) \in Nat /\ DOMAIN b = 1..Len(b)
      /\ DOMAIN (b \o Tail(a)) = 1..(Len(b) + Len(a) - 1)
      /\ \A k \in 1..(Len(b) + Len(a) - 1) :
           (b \o Tail(a))[k] = IF k <= Len(b) THEN b[k] ELSE Tail(a)[k - Len(b)]
  BY <1>1
<1>3. Head(a) = a[1]
  OBVIOUS
<1>4. \A k \in DOMAIN (b \o Tail(a)) :
              \/ k \in DOMAIN b /\ (b \o Tail(a))[k] = b[k]
              \/ /\ k > Len(b) /\ k - Len(b) + 1 \in DOMAIN a
                 /\ (b \o Tail(a))[k] = a[k - Len(b) + 1]
  <2> SUFFICES ASSUME NEW k \in 1..(Len(b) + Len(a) - 1), ~(k <= Len(b))
               PROVE  /\ k - Len(b) + 1 \in DOMAIN a
                      /\ (b \o Tail(a))[k] = a[k - Len(b) + 1]
    BY <1>2
  <2>1. k - Len(b) \in 1..(Len(a) - 1)
    BY <1>1, <1>2
  <2> QED
    BY <1>1, <1>2, <2>1
<1>5. \A k \in DOMAIN a : k > 1 => /\ k + Len(b) - 1 \in DOMAIN (b \o Tail(a))
                                   /\ (b \o Tail(a))[k + Len(b) - 1] = a[k]
  <2> SUFFICES ASSUME NEW k \in 1..Len(a), k > 1
               PROVE  /\ k + Len(b) - 1 \in 1..(Len(b) + Len(a) - 1)
                      /\ (b \o Tail(a))[k + Len(b) - 1] = a[k]
    BY <1>1, <1>2
  <2>1. /\ k - 1 \in 1..(Len(a) - 1) /\ k + Len(b) - 1 \in 1..(Len(b) + Len(a) - 1)
        /\ ~(k + Len(b) - 1 <= Len(b)) /\ (k + Len(b) - 1) - Len(b) = k - 1
    BY <1>1, <1>2
  <2> QED
    BY <1>1, <1>2, <2>1
<1>6. \A k \in DOMAIN b : k \in DOMAIN (b \o Tail(a)) /\ (b \o Tail(a))[k] = b[k]
  BY <1>1, <1>2
<1>7. 1 \in DOMAIN a
  BY <1>1
<1> QED
  BY <1>2, <1>3, <1>4, <1>5, <1>6, <1>7 DEF Spliced

\* What is on the agenda then, and what is on it once.
LEMMA Replaced ==
  ASSUME NEW S, NEW a \in Seq(S), a # <<>>, NEW b \in Seq(S), NEW x
  PROVE  /\ In(b \o Tail(a), x) => In(a, x) \/ In(b, x)
         /\ In(b, x) => In(b \o Tail(a), x)
         /\ In(a, x) /\ x # Head(a) => In(b \o Tail(a), x)
         /\ Once(a, x) /\ ~In(b, x) => Once(b \o Tail(a), x)
         /\ Once(a, x) /\ ~In(b, x) /\ x = Head(a) => ~In(b \o Tail(a), x)
         /\ ~In(a, x) /\ Once(b, x) => Once(b \o Tail(a), x)
<1> DEFINE n == b \o Tail(a)
<1>2. n \in Seq(S) /\ Spliced(a, b, n)
  BY Splice
<1>3. /\ DOMAIN n \subseteq Nat /\ DOMAIN a \subseteq Nat /\ Len(b) \in Nat
      /\ \A k \in DOMAIN a : k >= 1
  BY <1>2
<1> HIDE DEF n
<1>1. /\ 1 \in DOMAIN a /\ Head(a) = a[1]
      /\ \A k \in DOMAIN n : \/ k \in DOMAIN b /\ n[k] = b[k]
                             \/ /\ k > Len(b) /\ k - Len(b) + 1 \in DOMAIN a
                                /\ n[k] = a[k - Len(b) + 1]
      /\ \A k \in DOMAIN b : k \in DOMAIN n /\ n[k] = b[k]
      /\ \A k \in DOMAIN a : k > 1 => /\ k + Len(b) - 1 \in DOMAIN n
                                      /\ n[k + Len(b) - 1] = a[k]
  BY <1>2 DEF Spliced
<1>4. In(n, x) => In(a, x) \/ In(b, x)
  BY <1>1 DEF In
<1>5. In(b, x) => In(n, x)
  BY <1>1 DEF In
<1>6. In(a, x) /\ x # Head(a) => In(n, x)
  BY <1>1, <1>3 DEF In
<1>7. Once(a, x) /\ ~In(b, x) => Once(n, x)
  <2> SUFFICES ASSUME Once(a, x), ~In(b, x), NEW i \in DOMAIN n, NEW j \in DOMAIN n,
                      n[i] = x, n[j] = x
               PROVE  i = j
    BY DEF Once
  <2>1. /\ i - Len(b) + 1 \in DOMAIN a /\ a[i - Len(b) + 1] = x
        /\ j - Len(b) + 1 \in DOMAIN a /\ a[j - Len(b) + 1] = x
    BY <1>1 DEF In
  <2>2. i - Len(b) + 1 = j - Len(b) + 1
    BY <2>1 DEF Once
  <2> QED
    BY <1>3, <2>2
<1>8. Once(a, x) /\ ~In(b, x) /\ x = Head(a) => ~In(n, x)
  <2> SUFFICES ASSUME Once(a, x), ~In(b, x), x = Head(a), NEW i \in DOMAIN n, n[i] = x
               PROVE  FALSE
    BY DEF In
  <2>1. i - Len(b) + 1 \in DOMAIN a /\ a[i - Len(b) + 1] = x /\ i > Len(b)
    BY <1>1 DEF In
  <2>2. i - Len(b) + 1 = 1
    BY <1>1, <2>1 DEF Once
  <2> QED
    BY <1>3, <2>1, <2>2
<1>9. ~In(a, x) /\ Once(b, x) => Once(n, x)
  BY <1>1 DEF In, Once
<1> QED
  BY <1>4, <1>5, <1>6, <1>7, <1>8, <1>9 DEF n

\* Nothing is in the empty sequence.
LEMMA InNone == \A x : ~In(<<>>, x) /\ Once(<<>>, x)
  BY DEF In, Once

(***************************************************************************)
(* No step is done twice.                                                  *)
(***************************************************************************)
\* Task t has run: it was invoked, and its actions are no longer to come.
Ran(t) == t \in invoked /\ ~In(agenda, Act(t))
\* The file of the platform was loaded.
Loaded == \E t \in PlatformTasks(flags) : t \in DOMAIN actions

\* The types of the variables.
TypeInv ==
  /\ cmd \in BaseTasks /\ flags \in Flags
  /\ agenda \in Seq(Items) /\ log \in Seq(Names)
  /\ invoked \subseteq DOMAIN actions

\* The tables are fine.
TablesInv == FineTable(cmd, flags, actions) /\ FineNeedsTable(flags, prereqs)

\* The actions of a task are on the agenda once, when it was invoked.
ActsInv == \A t \in Names :
             In(agenda, Act(t)) => t \in invoked /\ Once(agenda, Act(t))

\* The dump that the command does not run is not invoked.
OneDump == /\ OtherDump(cmd, flags) \notin invoked
           /\ ~In(agenda, Invoke(OtherDump(cmd, flags)))

\* A step or a hook on the agenda is there once, its task has run, and the step was
\* not done before.
StepsInv == \A x \in Items :
              x.do \in Steps /\ In(agenda, x) =>
                /\ Ran(Owner(cmd, flags, x)) /\ Once(agenda, x)
                /\ x.do = "op" => ~In(log, x.what)
                /\ x.do = "extend" => x.what \in {"platform", "build", "scm"}

\* A step that was done was done once, and its task has run.
LogInv == \A s \in Names :
            In(log, s) => Ran(StepOwner(cmd, flags, s)) /\ Once(log, s)

\* The file of the platform is loaded once.
LoadedInv == Loaded => Ran("web:load_platform") /\ ~In(agenda, Extend("platform"))

\* A dump leads to nothing else.
DumpInv == cmd \in Dumps => \A i \in DOMAIN agenda : agenda[i].what = cmd \/ agenda[i].do = "op"

OnceInv == /\ TypeInv /\ TablesInv /\ ActsInv /\ OneDump
           /\ StepsInv /\ LogInv /\ LoadedInv /\ DumpInv

\* What holds of the agenda after its first thing was replaced by those of b.
LEMMA NewAgenda ==
  ASSUME TypeInv, agenda # <<>>, NEW b \in Seq(Items), Replace(b)
  PROVE  /\ agenda' \in Seq(Items)
         /\ Head(agenda) \in Items /\ In(agenda, Head(agenda))
         /\ \A x : /\ In(agenda', x) => In(agenda, x) \/ In(b, x)
                   /\ In(b, x) => In(agenda', x)
                   /\ In(agenda, x) /\ x # Head(agenda) => In(agenda', x)
                   /\ Once(agenda, x) /\ ~In(b, x) => Once(agenda', x)
                   /\ Once(agenda, x) /\ ~In(b, x) /\ x = Head(agenda) => ~In(agenda', x)
                   /\ ~In(agenda, x) /\ Once(b, x) => Once(agenda', x)
<1>1. agenda \in Seq(Items) /\ agenda' = b \o Tail(agenda)
  BY DEF TypeInv, Replace
<1>2. agenda' \in Seq(Items)
  BY <1>1, Splice
<1>3. Head(agenda) \in Items /\ 1 \in DOMAIN agenda /\ Head(agenda) = agenda[1]
  BY <1>1
<1>4. In(agenda, Head(agenda))
  BY <1>3 DEF In
<1>5. ASSUME NEW x
      PROVE  /\ In(agenda', x) => In(agenda, x) \/ In(b, x)
             /\ In(b, x) => In(agenda', x)
             /\ In(agenda, x) /\ x # Head(agenda) => In(agenda', x)
             /\ Once(agenda, x) /\ ~In(b, x) => Once(agenda', x)
             /\ Once(agenda, x) /\ ~In(b, x) /\ x = Head(agenda) => ~In(agenda', x)
             /\ ~In(agenda, x) /\ Once(b, x) => Once(agenda', x)
  BY <1>1, Replaced
<1> QED
  BY <1>2, <1>3, <1>4, <1>5

\* What an invocation puts on the agenda.
LEMMA InvokedItems ==
  ASSUME NEW t \in Names, NEW q \in Seq(Names)
  PROVE  /\ InvokeAll(q) \o <<Act(t)>> \in Seq(Items)
         /\ In(InvokeAll(q) \o <<Act(t)>>, Act(t))
         /\ Once(InvokeAll(q) \o <<Act(t)>>, Act(t))
         /\ \A x : In(InvokeAll(q) \o <<Act(t)>>, x) =>
                     x = Act(t) \/ \E i \in DOMAIN q : x = Invoke(q[i])
         /\ \A i \in DOMAIN q : In(InvokeAll(q) \o <<Act(t)>>, Invoke(q[i]))
<1> DEFINE p == InvokeAll(q)
           n == p \o <<Act(t)>>
<1>1. Act(t) \in Items /\ \A x \in Names : Invoke(x) \in Items
  BY DEF Act, Invoke, Items
<1>2. p \in [1..Len(q) -> Items] /\ DOMAIN p = 1..Len(q) /\ Len(q) \in Nat
  BY <1>1 DEF InvokeAll
<1>3. p \in Seq(Items)
  BY <1>2
<1>4. \A i \in DOMAIN q : i \in DOMAIN p /\ p[i] = Invoke(q[i])
  BY DEF InvokeAll
<1>5. \A i \in DOMAIN p : i \in DOMAIN q /\ p[i] = Invoke(q[i])
  BY DEF InvokeAll
<1>6. \A x : Invoke(x) # Act(t)
  BY DEF Invoke, Act
<1> HIDE DEF p
<1>7. /\ n \in Seq(Items) /\ DOMAIN n = 1..(Len(p) + 1) /\ Len(p) \in Nat
      /\ \A i \in 1..Len(p) : n[i] = p[i]
      /\ n[Len(p) + 1] = Act(t) /\ DOMAIN p = 1..Len(p)
  BY <1>1, <1>3
<1> HIDE DEF n
<1>8. In(n, Act(t))
  BY <1>7 DEF In
<1>9. Once(n, Act(t))
  <2>1. \A i \in DOMAIN n : n[i] = Act(t) => i = Len(p) + 1
    BY <1>5, <1>6, <1>7
  <2> QED
    BY <2>1 DEF Once
<1>10. \A x : In(n, x) => x = Act(t) \/ \E i \in DOMAIN q : x = Invoke(q[i])
  BY <1>5, <1>7 DEF In
<1>11. \A i \in DOMAIN q : In(n, Invoke(q[i]))
  BY <1>4, <1>7 DEF In
<1> QED
  BY <1>7, <1>8, <1>9, <1>10, <1>11 DEF n, p

\* The parts of a thing on the agenda.
LEMMA ItemParts ==
  /\ \A t : /\ Invoke(t).do = "invoke" /\ Invoke(t).what = t
            /\ Act(t).do = "act" /\ Act(t).what = t
            /\ Op(t).do = "op" /\ Op(t).what = t
            /\ Extend(t).do = "extend" /\ Extend(t).what = t
  /\ \A t \in Names : /\ Invoke(t) \in Items /\ Act(t) \in Items
                      /\ Op(t) \in Items /\ Extend(t) \in Items
  /\ \A x \in Items : /\ x.do = "invoke" => x = Invoke(x.what)
                      /\ x.do = "act" => x = Act(x.what)
                      /\ x.do = "op" => x = Op(x.what)
                      /\ x.do = "extend" => x = Extend(x.what)
                      /\ x.do \in {"invoke", "act", "op", "extend"} /\ x.what \in Names
  BY DEF Invoke, Act, Op, Extend, Items

\* An entry of the table of prerequisites that a task may have.
LEMMA NeedsEntry ==
  ASSUME TypeInv, TablesInv, NEW t
  PROVE  /\ Entry(prereqs, t) \in Seq(Names)
         /\ \A i \in DOMAIN Entry(prereqs, t) : MayNeed(flags, t, Entry(prereqs, t)[i])
  BY DEF TablesInv, FineNeedsTable, FineNeeds, Entry

\* What is kept when nothing comes in place of the first thing on the agenda.
LEMMA Shorter ==
  ASSUME OnceInv, Replace(<<>>), agenda # <<>>, UNCHANGED <<cmd, flags, invoked>>
  PROVE  /\ agenda' \in Seq(Items)
         /\ \A x : In(agenda', x) => In(agenda, x)
         /\ \A x : Once(agenda, x) => Once(agenda', x)
         /\ \A x : Once(agenda, x) /\ x = Head(agenda) => ~In(agenda', x)
         /\ \A t : Ran(t) => Ran(t)'
         /\ ActsInv' /\ OneDump' /\ DumpInv'
<1>1. /\ agenda' \in Seq(Items)
      /\ \A x : /\ In(agenda', x) => In(agenda, x)
                /\ Once(agenda, x) => Once(agenda', x)
                /\ Once(agenda, x) /\ x = Head(agenda) => ~In(agenda', x)
  BY NewAgenda, InNone, <<>> \in Seq(Items) DEF OnceInv
<1>2. \A t : Ran(t) => Ran(t)'
  BY <1>1 DEF Ran
<1>3. ActsInv'
  BY <1>1 DEF OnceInv, ActsInv
<1>4. OneDump'
  BY <1>1 DEF OnceInv, OneDump
<1>5. DumpInv'
  <2> SUFFICES ASSUME cmd \in Dumps, NEW i \in DOMAIN agenda'
               PROVE  agenda'[i].what = cmd \/ agenda'[i].do = "op"
    BY DEF DumpInv
  <2>1. In(agenda, agenda'[i])
    BY <1>1 DEF In
  <2> QED
    BY <2>1 DEF In, OnceInv, DumpInv
<1> QED
  BY <1>1, <1>2, <1>3, <1>4, <1>5

\* A task that is invoked again.
LEMMA InvokeAgain ==
  ASSUME OnceInv, InvokeTask, Subject \in invoked
  PROVE  OnceInv'
<1>1. Replace(<<>>) /\ agenda # <<>> /\ UNCHANGED <<cmd, flags, invoked>>
  BY DEF InvokeTask, Due
<1>2. UNCHANGED <<prereqs, actions, log>>
  BY DEF InvokeTask, tables
<1>3. TypeInv'
  BY <1>1, <1>2, Shorter DEF OnceInv, TypeInv
<1>4. TablesInv'
  BY <1>1, <1>2 DEF OnceInv, TablesInv
<1>5. StepsInv'
  BY <1>1, <1>2, Shorter DEF OnceInv, StepsInv
<1>6. LogInv'
  BY <1>1, <1>2, Shorter DEF OnceInv, LogInv
<1>7. LoadedInv'
  BY <1>1, <1>2, Shorter DEF OnceInv, LoadedInv, Loaded
<1> QED
  BY <1>1, <1>3, <1>4, <1>5, <1>6, <1>7, Shorter DEF OnceInv

\* What comes onto the agenda with a task that is invoked for the first time.
NewItems == InvokeAll(Entry(prereqs, Subject)) \o <<Act(Subject)>>

\* A task that is invoked for the first time: its effect on the agenda.
LEMMA FirstFacts ==
  ASSUME OnceInv, InvokeTask, Subject \notin invoked
  PROVE  /\ Replace(NewItems) /\ agenda # <<>> /\ UNCHANGED <<cmd, flags>>
         /\ UNCHANGED <<prereqs, actions, log>> /\ invoked' = invoked \cup {Subject}
         /\ Subject \in Names /\ Subject \in DOMAIN actions
         /\ Head(agenda) = Invoke(Subject)
         /\ Head(agenda) \in Items /\ In(agenda, Head(agenda))
         /\ NewItems \in Seq(Items) /\ In(NewItems, Act(Subject))
         /\ Once(NewItems, Act(Subject))
         /\ \A x : In(NewItems, x) => \/ x = Act(Subject)
                                      \/ x = Invoke(x.what) /\ MayNeed(flags, Subject, x.what)
         /\ agenda' \in Seq(Items)
         /\ \A x : /\ In(agenda', x) => In(agenda, x) \/ In(NewItems, x)
                   /\ In(NewItems, x) => In(agenda', x)
                   /\ Once(agenda, x) /\ ~In(NewItems, x) => Once(agenda', x)
                   /\ ~In(agenda, x) /\ Once(NewItems, x) => Once(agenda', x)
         /\ ~In(agenda, Act(Subject))
         /\ \A t : Ran(t) => Ran(t)'
<1> DEFINE q == Entry(prereqs, Subject)
<1>1. Replace(NewItems) /\ agenda # <<>> /\ UNCHANGED <<cmd, flags>>
  BY DEF InvokeTask, Due, NewItems
<1>2. UNCHANGED <<prereqs, actions, log>> /\ invoked' = invoked \cup {Subject}
  BY DEF InvokeTask, tables
<1>3. /\ Subject \in Names /\ Subject \in DOMAIN actions /\ Head(agenda) = Invoke(Subject)
      /\ Head(agenda) \in Items /\ In(agenda, Head(agenda))
  <2>1. Head(agenda) \in Items /\ In(agenda, Head(agenda))
    BY <1>1 DEF OnceInv, TypeInv, In
  <2>2. Head(agenda).do = "invoke" /\ Subject \in DOMAIN actions
    BY DEF InvokeTask, Due
  <2> QED
    BY <2>1, <2>2, ItemParts DEF Subject
<1>4. q \in Seq(Names) /\ \A i \in DOMAIN q : MayNeed(flags, Subject, q[i])
  BY NeedsEntry DEF OnceInv
<1>5. /\ NewItems \in Seq(Items) /\ In(NewItems, Act(Subject)) /\ Once(NewItems, Act(Subject))
      /\ \A x : In(NewItems, x) => \/ x = Act(Subject)
                                   \/ x = Invoke(x.what) /\ MayNeed(flags, Subject, x.what)
  <2>0. NewItems = InvokeAll(q) \o <<Act(Subject)>>
    BY DEF NewItems
  <2> HIDE DEF q
  <2>1. /\ InvokeAll(q) \o <<Act(Subject)>> \in Seq(Items)
        /\ In(InvokeAll(q) \o <<Act(Subject)>>, Act(Subject))
        /\ Once(InvokeAll(q) \o <<Act(Subject)>>, Act(Subject))
        /\ \A x : In(InvokeAll(q) \o <<Act(Subject)>>, x) =>
              \/ x = Act(Subject)
              \/ x = Invoke(x.what) /\ MayNeed(flags, Subject, x.what)
    BY <1>3, <1>4, InvokedItems, ItemParts
  <2> QED
    BY <2>0, <2>1
<1>6. /\ agenda' \in Seq(Items)
      /\ \A x : /\ In(agenda', x) => In(agenda, x) \/ In(NewItems, x)
                /\ In(NewItems, x) => In(agenda', x)
                /\ Once(agenda, x) /\ ~In(NewItems, x) => Once(agenda', x)
                /\ ~In(agenda, x) /\ Once(NewItems, x) => Once(agenda', x)
  BY <1>1, <1>5, NewAgenda DEF OnceInv
<1>7. ~In(agenda, Act(Subject))
  BY <1>3 DEF OnceInv, ActsInv
<1>8. \A t : Ran(t) => Ran(t)'
  <2> SUFFICES ASSUME NEW t, Ran(t), In(agenda', Act(t))
               PROVE  FALSE
    BY <1>2 DEF Ran
  <2>1. In(NewItems, Act(t))
    BY <1>6 DEF Ran
  <2>2. Act(t) = Act(Subject)
    BY <1>5, <2>1, ItemParts
  <2>3. t = Subject
    BY <2>2, ItemParts
  <2> QED
    BY <2>3 DEF Ran
<1> QED
  BY <1>1, <1>2, <1>3, <1>5, <1>6, <1>7, <1>8

\* A task that is invoked for the first time.
LEMMA InvokeFirst ==
  ASSUME OnceInv, InvokeTask, Subject \notin invoked
  PROVE  OnceInv'
<1>1. Replace(NewItems) /\ agenda # <<>> /\ UNCHANGED <<cmd, flags>>
  BY FirstFacts
<1>2. UNCHANGED <<prereqs, actions, log>> /\ invoked' = invoked \cup {Subject}
  BY FirstFacts
<1>3. /\ Subject \in Names /\ Subject \in DOMAIN actions /\ Head(agenda) = Invoke(Subject)
      /\ Head(agenda) \in Items /\ In(agenda, Head(agenda))
  BY FirstFacts
<1>5. /\ NewItems \in Seq(Items) /\ In(NewItems, Act(Subject)) /\ Once(NewItems, Act(Subject))
      /\ \A x : In(NewItems, x) => \/ x = Act(Subject)
                                   \/ x = Invoke(x.what) /\ MayNeed(flags, Subject, x.what)
  BY FirstFacts
<1>6. /\ agenda' \in Seq(Items)
      /\ \A x : /\ In(agenda', x) => In(agenda, x) \/ In(NewItems, x)
                /\ In(NewItems, x) => In(agenda', x)
                /\ Once(agenda, x) /\ ~In(NewItems, x) => Once(agenda', x)
                /\ ~In(agenda, x) /\ Once(NewItems, x) => Once(agenda', x)
  BY FirstFacts
<1>7. ~In(agenda, Act(Subject))
  BY FirstFacts
<1>8. \A t : Ran(t) => Ran(t)'
  BY FirstFacts
<1>9. TypeInv'
  BY <1>1, <1>2, <1>3, <1>6 DEF OnceInv, TypeInv
<1>10. TablesInv'
  BY <1>1, <1>2 DEF OnceInv, TablesInv
<1>11. ActsInv'
  <2> SUFFICES ASSUME NEW t \in Names, In(agenda', Act(t))
               PROVE  t \in invoked' /\ Once(agenda', Act(t))
    BY DEF ActsInv
  <2>1. CASE t = Subject
    BY <2>1, <1>2, <1>5, <1>6, <1>7
  <2>2. CASE t # Subject
    <3>1. ~In(NewItems, Act(t))
      BY <2>2, <1>5, ItemParts
    <3> QED
      BY <3>1, <1>2, <1>6 DEF OnceInv, ActsInv
  <2> QED
    BY <2>1, <2>2
<1>12. OneDump'
  <2>1. Subject # OtherDump(cmd, flags)
    BY <1>3 DEF OnceInv, OneDump
  <2>2. \A x : MayNeed(flags, Subject, x) => x # OtherDump(cmd, flags)
    BY DEF MayNeed, OtherDump, OfPlatform
  <2>3. ~In(NewItems, Invoke(OtherDump(cmd, flags)))
    BY <2>2, <1>5, ItemParts
  <2> QED
    BY <2>1, <2>3, <1>1, <1>2, <1>6 DEF OnceInv, OneDump
<1>13. StepsInv'
  <2>1. \A x : x.do \in Steps => ~In(NewItems, x)
    BY <1>5, ItemParts DEF Steps
  <2> QED
    BY <2>1, <1>1, <1>2, <1>6, <1>8 DEF OnceInv, StepsInv
<1>14. LogInv'
  BY <1>1, <1>2, <1>8 DEF OnceInv, LogInv
<1>15. LoadedInv'
  <2>1. ~In(NewItems, Extend("platform"))
    BY <1>5, ItemParts
  <2> QED
    BY <2>1, <1>1, <1>2, <1>6, <1>8 DEF OnceInv, LoadedInv, Loaded
<1>16. DumpInv'
  <2> SUFFICES ASSUME cmd \in Dumps, NEW i \in DOMAIN agenda'
               PROVE  agenda'[i].what = cmd \/ agenda'[i].do = "op"
    BY <1>1 DEF DumpInv
  <2>1. In(agenda, agenda'[i]) \/ In(NewItems, agenda'[i])
    BY <1>6 DEF In
  <2>2. Subject = cmd
    BY <1>3, ItemParts DEF OnceInv, DumpInv, In
  <2>3. In(NewItems, agenda'[i]) => agenda'[i] = Act(cmd)
    BY <1>5, <2>2 DEF MayNeed, Dumps
  <2> QED
    BY <2>1, <2>3, ItemParts DEF OnceInv, DumpInv, In
<1> QED
  BY <1>9, <1>10, <1>11, <1>12, <1>13, <1>14, <1>15, <1>16 DEF OnceInv

\* The actions of a task: their effect on the agenda.
LEMMA ActFacts ==
  ASSUME OnceInv, RunActions
  PROVE  /\ Replace(actions[Subject]) /\ agenda # <<>>
         /\ UNCHANGED <<cmd, flags, prereqs, actions, invoked, log>>
         /\ Subject \in Names /\ Head(agenda) = Act(Subject)
         /\ Head(agenda) \in Items /\ In(agenda, Head(agenda))
         /\ Subject \in invoked /\ Subject \in DOMAIN actions
         /\ actions[Subject] \in Seq(Items)
         /\ \A x : In(actions[Subject], x) => FineItem(cmd, flags, Subject, x) /\ x \in Items
         /\ \A x : x.do \in Steps => Once(actions[Subject], x)
         /\ agenda' \in Seq(Items)
         /\ \A x : /\ In(agenda', x) => In(agenda, x) \/ In(actions[Subject], x)
                   /\ Once(agenda, x) /\ ~In(actions[Subject], x) => Once(agenda', x)
                   /\ ~In(agenda, x) /\ Once(actions[Subject], x) => Once(agenda', x)
         /\ \A t : ~In(actions[Subject], Act(t))
         /\ \A t : Ran(t) => Ran(t)'
         /\ ~In(agenda', Act(Subject)) /\ ~Ran(Subject)
         /\ \A t : t = Subject => Ran(t)'
         /\ \A x : x.do \in Steps /\ In(actions[Subject], x) => Subject = Owner(cmd, flags, x)
<1> DEFINE b == actions[Subject]
<1>1. Replace(b) /\ agenda # <<>> /\ UNCHANGED <<cmd, flags, prereqs, actions, invoked, log>>
  BY DEF RunActions, Due, tables
<1>2. /\ Subject \in Names /\ Head(agenda) = Act(Subject)
      /\ Head(agenda) \in Items /\ In(agenda, Head(agenda))
  <2>1. Head(agenda) \in Items /\ In(agenda, Head(agenda))
    BY <1>1 DEF OnceInv, TypeInv, In
  <2>2. Head(agenda).do = "act"
    BY DEF RunActions, Due
  <2> QED
    BY <2>1, <2>2, ItemParts DEF Subject
<1>3. Subject \in invoked /\ Once(agenda, Act(Subject)) /\ Subject \in DOMAIN actions
  BY <1>2 DEF OnceInv, ActsInv, TypeInv
<1>4. FineRow(cmd, flags, Subject, b)
  BY <1>3 DEF OnceInv, TablesInv, FineTable
<1>5. /\ b \in Seq(Items)
      /\ \A x : In(b, x) => FineItem(cmd, flags, Subject, x) /\ x \in Items
      /\ \A x : x.do \in Steps => Once(b, x)
  BY <1>4 DEF FineRow, In, Once
<1> HIDE DEF b
<1>6. /\ agenda' \in Seq(Items)
      /\ \A x : /\ In(agenda', x) => In(agenda, x) \/ In(b, x)
                /\ Once(agenda, x) /\ ~In(b, x) => Once(agenda', x)
                /\ Once(agenda, x) /\ ~In(b, x) /\ x = Head(agenda) => ~In(agenda', x)
                /\ ~In(agenda, x) /\ Once(b, x) => Once(agenda', x)
  BY <1>1, <1>5, NewAgenda DEF OnceInv
<1>7. \A t : ~In(b, Act(t))
  BY <1>5, ItemParts DEF FineItem
<1>8. \A t : Ran(t) => Ran(t)'
  BY <1>1, <1>6, <1>7 DEF Ran
<1>12. \A t : Ran(t)' <=> t \in invoked /\ ~In(agenda', Act(t))
  BY <1>1 DEF Ran
<1>9. /\ Subject \in invoked /\ ~In(agenda', Act(Subject)) /\ ~Ran(Subject)
      /\ \A t : t = Subject => Ran(t)'
  <2>1. ~In(agenda', Act(Subject))
    BY <1>2, <1>3, <1>6, <1>7
  <2>2. ~Ran(Subject)
    BY <1>2 DEF Ran
  <2> QED
    BY <2>1, <2>2, <1>3, <1>12
<1>10. Subject # OtherDump(cmd, flags)
  BY <1>3 DEF OnceInv, OneDump
<1>11. \A x : x.do \in Steps /\ In(b, x) => Subject = Owner(cmd, flags, x)
  BY <1>5, <1>10 DEF FineItem
<1> QED
  BY <1>1, <1>2, <1>3, <1>5, <1>6, <1>7, <1>8, <1>9, <1>11 DEF b

\* The actions of a task.
LEMMA RunActionsOnce ==
  ASSUME OnceInv, RunActions
  PROVE  OnceInv'
<1> DEFINE b == actions[Subject]
<1>1. Replace(b) /\ agenda # <<>> /\ UNCHANGED <<cmd, flags, prereqs, actions, invoked, log>>
  BY ActFacts
<1>2. /\ Subject \in Names /\ Head(agenda) = Act(Subject)
      /\ Head(agenda) \in Items /\ In(agenda, Head(agenda))
  BY ActFacts
<1>5. /\ b \in Seq(Items)
      /\ \A x : In(b, x) => FineItem(cmd, flags, Subject, x) /\ x \in Items
      /\ \A x : x.do \in Steps => Once(b, x)
  BY ActFacts
<1>6. /\ agenda' \in Seq(Items)
      /\ \A x : /\ In(agenda', x) => In(agenda, x) \/ In(b, x)
                /\ Once(agenda, x) /\ ~In(b, x) => Once(agenda', x)
                /\ ~In(agenda, x) /\ Once(b, x) => Once(agenda', x)
  BY ActFacts
<1>7. \A t : ~In(b, Act(t))
  BY ActFacts
<1>8. \A t : Ran(t) => Ran(t)'
  BY ActFacts
<1>9. ~Ran(Subject) /\ \A t : t = Subject => Ran(t)'
  BY ActFacts
<1>11. \A x : x.do \in Steps /\ In(b, x) => Subject = Owner(cmd, flags, x)
  BY ActFacts
<1> HIDE DEF b
<1>12. TypeInv'
  BY <1>1, <1>6 DEF OnceInv, TypeInv
<1>13. TablesInv'
  BY <1>1 DEF OnceInv, TablesInv
<1>14. ActsInv'
  BY <1>1, <1>6, <1>7 DEF OnceInv, ActsInv
<1>15. OneDump'
  <2>1. ~In(b, Invoke(OtherDump(cmd, flags)))
    BY <1>5, ItemParts DEF FineItem, MayInvoke
  <2> QED
    BY <2>1, <1>1, <1>6 DEF OnceInv, OneDump
<1>16. StepsInv'
  <2> SUFFICES ASSUME NEW x \in Items, x.do \in Steps, In(agenda', x)
               PROVE  /\ Ran(Owner(cmd, flags, x))' /\ Once(agenda', x)
                      /\ x.do = "op" => ~In(log, x.what)
                      /\ x.do = "extend" => x.what \in {"platform", "build", "scm"}
    BY <1>1 DEF StepsInv, Ran
  <2>1. CASE In(b, x)
    <3>1. Subject = Owner(cmd, flags, x)
      BY <2>1, <1>11
    <3>2. ~In(agenda, x)
      BY <3>1, <1>9 DEF OnceInv, StepsInv
    <3>3. x.do = "op" => ~In(log, x.what)
      <4> SUFFICES ASSUME x.do = "op", In(log, x.what)
                   PROVE  FALSE
        OBVIOUS
      <4>1. StepOwner(cmd, flags, x.what) = Subject
        BY <3>1 DEF Owner
      <4> QED
        BY <4>1, <1>9, ItemParts DEF OnceInv, LogInv
    <3>4. Ran(Owner(cmd, flags, x))'
      BY <3>1, <1>1, <1>9
    <3>5. Once(agenda', x)
      BY <3>2, <1>5, <1>6
    <3> QED
      BY <2>1, <3>3, <3>4, <3>5, <1>5 DEF FineItem
  <2>2. CASE ~In(b, x)
    <3>1. In(agenda, x)
      BY <2>2, <1>6
    <3> QED
      BY <3>1, <2>2, <1>1, <1>6, <1>8 DEF OnceInv, StepsInv
  <2> QED
    BY <2>1, <2>2
<1>17. LogInv'
  BY <1>1, <1>8 DEF OnceInv, LogInv
<1>18. LoadedInv'
  <2> SUFFICES ASSUME Loaded
               PROVE  Ran("web:load_platform")' /\ ~In(agenda', Extend("platform"))
    BY <1>1 DEF LoadedInv, Loaded
  <2>1. ~In(b, Extend("platform"))
    <3> SUFFICES ASSUME In(b, Extend("platform"))
                 PROVE  FALSE
      OBVIOUS
    <3>1. Subject = "web:load_platform"
      BY <1>11, ItemParts DEF Steps, Owner, HooksOwner
    <3> QED
      BY <3>1, <1>9 DEF OnceInv, LoadedInv
  <2> QED
    BY <2>1, <1>6, <1>8 DEF OnceInv, LoadedInv
<1>19. DumpInv'
  <2> SUFFICES ASSUME cmd \in Dumps, NEW i \in DOMAIN agenda'
               PROVE  agenda'[i].what = cmd \/ agenda'[i].do = "op"
    BY <1>1 DEF DumpInv
  <2>1. In(agenda, agenda'[i]) \/ In(b, agenda'[i])
    BY <1>6 DEF In
  <2>2. Subject = cmd
    BY <1>2, ItemParts DEF OnceInv, DumpInv, In
  <2>3. ASSUME In(b, agenda'[i])
        PROVE  agenda'[i].do = "op"
    <3>1. agenda'[i].do \in {"invoke", "act", "op", "extend"}
      BY <2>3, <1>5, ItemParts
    <3>2. agenda'[i].do # "invoke" /\ agenda'[i].do # "act"
      BY <2>2, <2>3, <1>5 DEF FineItem, MayInvoke, Dumps
    <3>3. agenda'[i].do # "extend"
      BY <2>2, <2>3, <1>11 DEF Steps, Owner, HooksOwner, Dumps
    <3> QED
      BY <3>1, <3>2, <3>3
  <2> QED
    BY <2>1, <2>3 DEF OnceInv, DumpInv, In
<1> QED
  BY <1>12, <1>13, <1>14, <1>15, <1>16, <1>17, <1>18, <1>19 DEF OnceInv

\* What is in a log that grew by a step.
LEMMA Logged ==
  ASSUME NEW S, NEW q \in Seq(S), NEW s \in S
  PROVE  /\ Append(q, s) \in Seq(S)
         /\ \A x : In(Append(q, s), x) => In(q, x) \/ x = s
         /\ \A x : In(q, x) \/ x = s => In(Append(q, s), x)
         /\ \A x : Once(q, x) /\ ~(In(q, x) /\ x = s) => Once(Append(q, s), x)
<1> DEFINE n == Append(q, s)
<1>1. /\ n \in Seq(S) /\ DOMAIN n = 1..(Len(q) + 1) /\ n[Len(q) + 1] = s
      /\ \A i \in 1..Len(q) : n[i] = q[i]
      /\ DOMAIN q = 1..Len(q) /\ Len(q) \in Nat
  OBVIOUS
<1> HIDE DEF n
<1>2. \A i \in DOMAIN n : (i \in DOMAIN q /\ n[i] = q[i]) \/ i = Len(q) + 1
  BY <1>1
<1>3. \A x : In(n, x) => In(q, x) \/ x = s
  BY <1>1, <1>2 DEF In
<1>4. \A x : In(q, x) \/ x = s => In(n, x)
  BY <1>1 DEF In
<1>5. ASSUME NEW x, Once(q, x), ~(In(q, x) /\ x = s)
      PROVE  Once(n, x)
  BY <1>1, <1>2, <1>5 DEF In, Once
<1> QED
  BY <1>1, <1>3, <1>4, <1>5 DEF n

\* A step on the hosts.
LEMMA DoOpOnce ==
  ASSUME OnceInv, DoOp
  PROVE  OnceInv'
<1>1. Replace(<<>>) /\ agenda # <<>> /\ UNCHANGED <<cmd, flags, invoked>>
  BY DEF DoOp, Due
<1>2. UNCHANGED <<prereqs, actions>> /\ log' = Append(log, Subject)
  BY DEF DoOp, tables
<1>3. /\ Subject \in Names /\ Head(agenda) = Op(Subject)
      /\ Head(agenda) \in Items /\ In(agenda, Head(agenda))
  <2>1. Head(agenda) \in Items /\ In(agenda, Head(agenda))
    BY <1>1 DEF OnceInv, TypeInv, In
  <2>2. Head(agenda).do = "op"
    BY DEF DoOp, Due
  <2> QED
    BY <2>1, <2>2, ItemParts DEF Subject
<1>4. /\ Once(agenda, Op(Subject)) /\ ~In(log, Subject)
      /\ Ran(StepOwner(cmd, flags, Subject))
  BY <1>3, ItemParts DEF OnceInv, StepsInv, Steps, Owner
<1>5. /\ log' \in Seq(Names)
      /\ \A x : In(log', x) => In(log, x) \/ x = Subject
      /\ \A x : Once(log, x) /\ ~(In(log, x) /\ x = Subject) => Once(log', x)
  BY <1>2, <1>3, Logged DEF OnceInv, TypeInv
<1>6. TypeInv'
  BY <1>1, <1>2, <1>5, Shorter DEF OnceInv, TypeInv
<1>7. TablesInv'
  BY <1>1, <1>2 DEF OnceInv, TablesInv
<1>8. StepsInv'
  <2> SUFFICES ASSUME NEW x \in Items, x.do \in Steps, In(agenda', x)
               PROVE  /\ Ran(Owner(cmd, flags, x))' /\ Once(agenda', x)
                      /\ x.do = "op" => ~In(log', x.what)
                      /\ x.do = "extend" => x.what \in {"platform", "build", "scm"}
    BY <1>1 DEF StepsInv, Ran
  <2>1. In(agenda, x)
    BY <1>1, Shorter
  <2>2. x # Op(Subject)
    BY <1>1, <1>3, <1>4, Shorter
  <2>3. x.do = "op" => x.what # Subject
    BY <2>2, ItemParts
  <2> QED
    BY <2>1, <2>3, <1>1, <1>5, Shorter DEF OnceInv, StepsInv
<1>9. LogInv'
  <2> SUFFICES ASSUME NEW s \in Names, In(log', s)
               PROVE  Ran(StepOwner(cmd, flags, s))' /\ Once(log', s)
    BY <1>1 DEF LogInv, Ran
  <2>1. Ran(StepOwner(cmd, flags, s))
    BY <1>4, <1>5 DEF OnceInv, LogInv
  <2>2. Once(log, s) /\ ~(In(log, s) /\ s = Subject)
    BY <1>4, <1>5 DEF OnceInv, LogInv, In, Once
  <2> QED
    BY <2>1, <2>2, <1>1, <1>5, Shorter
<1>10. LoadedInv'
  BY <1>1, <1>2, Shorter DEF OnceInv, LoadedInv, Loaded
<1> QED
  BY <1>1, <1>6, <1>7, <1>8, <1>9, <1>10, Shorter DEF OnceInv

\* The hooks that are added to the tables are fine, and give no steps to a task that
\* is there.
LEMMA HooksFine ==
  ASSUME OnceInv, Due("extend")
  PROVE  /\ Subject \in {"platform", "build", "scm"} /\ Head(agenda) = Extend(Subject)
         /\ In(agenda, Head(agenda)) /\ Head(agenda) \in Items
         /\ \A r \in Hooks[Subject].actions :
              /\ FineAdd(cmd, flags, r)
              /\ r.task \in DOMAIN actions => Plain(r.adds)
              /\ Subject # "platform" => r.task \notin PlatformTasks(flags)
         /\ \A r \in Hooks[Subject].prereqs : NeedAdd(flags, r)
<1>1. /\ Head(agenda) = Extend(Subject)
      /\ In(agenda, Head(agenda)) /\ Head(agenda) \in Items
  <2>1. Head(agenda) \in Items /\ In(agenda, Head(agenda))
    BY DEF OnceInv, TypeInv, In, Due
  <2>2. Head(agenda).do = "extend"
    BY DEF Due
  <2> QED
    BY <2>1, <2>2, ItemParts DEF Subject
<1>2. Subject \in {"platform", "build", "scm"}
  BY <1>1, ItemParts DEF OnceInv, StepsInv, Steps
<1>3. flags \in Flags
  BY DEF OnceInv, TypeInv
<1>4. CASE Subject = "platform"
  <2>1. ~Loaded
    BY <1>1, <1>4 DEF OnceInv, LoadedInv
  <2>2. cmd \notin Dumps
    BY <1>1, <1>4, ItemParts DEF OnceInv, DumpInv, In, Dumps
  <2>3. CASE flags.platform = "drupal"
    <3>1. Hooks[Subject] = DrupalHooks
      BY <1>4, <2>3 DEF Hooks
    <3>2. \A r \in DrupalHooks.actions : /\ FineAdd(cmd, flags, r)
                                         /\ r.task \in PlatformTasks(flags) \/ Plain(r.adds)
      BY <1>3, <2>2, <2>3, DrupalActionsFine
    <3>3. \A r \in DrupalHooks.prereqs : NeedAdd(flags, r)
      BY <1>3, <2>3, PlatformNeedsFine
    <3>4. \A t \in PlatformTasks(flags) : t \notin DOMAIN actions
      BY <2>1 DEF Loaded
    <3> QED
      BY <1>1, <1>4, <3>1, <3>2, <3>3, <3>4
  <2>4. CASE flags.platform = "wordpress"
    <3>1. Hooks[Subject] = WordpressHooks
      BY <1>4, <2>4 DEF Hooks
    <3> QED
      BY <1>1, <1>3, <1>4, <2>1, <2>2, <2>4, <3>1, WordpressActionsFine, PlatformNeedsFine
         DEF Loaded
  <2> QED
    BY <1>3, <2>3, <2>4 DEF Flags
<1>5. ASSUME NEW r
      PROVE  r.task \in {"rsync:check", "rsync:create_release", "rsync:stage"} =>
               r.task \notin PlatformTasks(flags)
  BY DEF PlatformTasks
<1>6. CASE Subject = "build"
  <2>1. Hooks[Subject] = BuildHooks
    BY <1>6 DEF Hooks
  <2>2. \A r \in BuildHooks.actions : r.task \in {"rsync:stage"}
    BY RowParts DEF BuildHooks
  <2>3. BuildHooks.prereqs = {}
    BY DEF BuildHooks
  <2> QED
    BY <1>1, <1>2, <1>3, <1>5, <1>6, <2>1, <2>2, <2>3, BuildActionsFine
<1>7. CASE Subject = "scm"
  <2>1. Hooks[Subject] = ScmHooks
    BY <1>7 DEF Hooks
  <2>2. \A r \in ScmHooks.actions : r.task \in {"rsync:check", "rsync:create_release"}
    BY RowParts DEF ScmHooks
  <2>3. ScmHooks.prereqs = {}
    BY DEF ScmHooks
  <2> QED
    BY <1>1, <1>2, <1>3, <1>5, <1>7, <2>1, <2>2, <2>3, ScmActionsFine
<1> QED
  BY <1>2, <1>4, <1>6, <1>7

\* Hooks that are added to the tables.
LEMMA AddHooksOnce ==
  ASSUME OnceInv, AddHooks
  PROVE  OnceInv'
<1> DEFINE more == Hooks[Subject]
<1>1. Replace(<<>>) /\ agenda # <<>> /\ UNCHANGED <<cmd, flags, invoked>> /\ log' = log
  BY DEF AddHooks, Due
<1>2. /\ prereqs' = Enhance(prereqs, more.prereqs)
      /\ actions' = Enhance(actions, more.actions)
      /\ Due("extend")
  BY DEF AddHooks
<1>3. /\ Subject \in {"platform", "build", "scm"} /\ Head(agenda) = Extend(Subject)
      /\ In(agenda, Head(agenda)) /\ Head(agenda) \in Items
      /\ \A r \in more.actions :
           /\ FineAdd(cmd, flags, r)
           /\ r.task \in DOMAIN actions => Plain(r.adds)
           /\ Subject # "platform" => r.task \notin PlatformTasks(flags)
      /\ \A r \in more.prereqs : NeedAdd(flags, r)
  BY <1>2, HooksFine
<1> HIDE DEF more
<1>4. DOMAIN actions' = DOMAIN actions \cup {r.task : r \in more.actions}
  BY <1>2 DEF Enhance
<1>5. TypeInv'
  BY <1>1, <1>4, Shorter DEF OnceInv, TypeInv
<1>6. TablesInv'
  <2>1. FineTable(cmd, flags, actions')
    BY <1>2, <1>3, EnhanceFine DEF OnceInv, TablesInv
  <2>2. FineNeedsTable(flags, prereqs')
    BY <1>2, <1>3, EnhanceNeedsFine DEF OnceInv, TablesInv
  <2> QED
    BY <2>1, <2>2, <1>1 DEF TablesInv
<1>7. StepsInv'
  BY <1>1, Shorter DEF OnceInv, StepsInv
<1>8. LogInv'
  BY <1>1, Shorter DEF OnceInv, LogInv
<1>9. LoadedInv'
  <2> SUFFICES ASSUME Loaded'
               PROVE  Ran("web:load_platform")' /\ ~In(agenda', Extend("platform"))
    BY DEF LoadedInv
  <2>1. Once(agenda, Extend(Subject)) /\ Ran(HooksOwner(Subject))
    BY <1>3, ItemParts DEF OnceInv, StepsInv, Steps, Owner
  <2>2. CASE Subject = "platform"
    BY <2>1, <2>2, <1>1, <1>3, Shorter DEF HooksOwner
  <2>3. CASE Subject # "platform"
    <3>1. Loaded
      BY <2>3, <1>1, <1>3, <1>4 DEF Loaded
    <3> QED
      BY <3>1, <1>1, Shorter DEF OnceInv, LoadedInv
  <2> QED
    BY <2>2, <2>3
<1> QED
  BY <1>1, <1>5, <1>6, <1>7, <1>8, <1>9, Shorter DEF OnceInv

\* It holds when a command starts.
LEMMA InitOnce == Init => OnceInv
<1> SUFFICES ASSUME Init
             PROVE  OnceInv
  OBVIOUS
<1>1. /\ cmd \in BaseTasks /\ flags \in Flags /\ invoked = {} /\ log = <<>>
      /\ agenda = <<Invoke(cmd)>>
  BY CommandAssumption, FlagAssumption, CommandsDefined DEF Init
<1>2. /\ prereqs = Enhance(Enhance(NoTasks, StockPrereqs), ProjectPrereqs)
      /\ actions = Enhance(Enhance(NoTasks, StockActions), ProjectActions(flags))
  BY DEF Init
<1>3. TablesInv /\ DOMAIN actions \subseteq BaseTasks
  BY <1>1, <1>2, InitTables DEF TablesInv
<1>4. cmd \in Names /\ cmd # OtherDump(cmd, flags)
  BY <1>1 DEF Names, BaseTasks, OtherDump, OfPlatform
<1>5. /\ Invoke(cmd) \in Items
      /\ agenda \in Seq(Items) /\ DOMAIN agenda = {1} /\ agenda[1] = Invoke(cmd)
  BY <1>1, <1>4, ItemParts
<1>6. \A x : In(agenda, x) => x = Invoke(cmd)
  BY <1>5 DEF In
<1>7. TypeInv
  BY <1>1, <1>5 DEF TypeInv
<1>8. ActsInv
  BY <1>6, ItemParts DEF ActsInv
<1>9. OneDump
  BY <1>1, <1>4, <1>6, ItemParts DEF OneDump
<1>10. StepsInv
  BY <1>6, ItemParts DEF StepsInv, Steps
<1>11. LogInv
  BY <1>1, InNone DEF LogInv
<1>12. LoadedInv
  BY <1>3 DEF LoadedInv, Loaded, PlatformTasks, BaseTasks
<1>13. DumpInv
  BY <1>5, ItemParts DEF DumpInv
<1> QED
  BY <1>3, <1>7, <1>8, <1>9, <1>10, <1>11, <1>12, <1>13 DEF OnceInv

\* Every step keeps it.
LEMMA NextOnce == OnceInv /\ [Next]_vars => OnceInv'
<1> SUFFICES ASSUME OnceInv, [Next]_vars
             PROVE  OnceInv'
  OBVIOUS
<1>1. CASE UNCHANGED <<cmd, flags, prereqs, actions, invoked, agenda, log>>
  BY <1>1 DEF OnceInv, TypeInv, TablesInv, ActsInv, OneDump, StepsInv, LogInv, LoadedInv,
              DumpInv, Ran, Loaded
<1>2. CASE InvokeTask
  BY <1>2, InvokeAgain, InvokeFirst
<1>3. CASE RunActions
  BY <1>3, RunActionsOnce
<1>4. CASE DoOp
  BY <1>4, DoOpOnce
<1>5. CASE AddHooks
  BY <1>5, AddHooksOnce
<1> QED
  BY <1>1, <1>2, <1>3, <1>4, <1>5
     DEF Next, vars, tables, InvokeUnknown, OpFails, Finish

\* Every behaviour keeps it.
THEOREM OnceHolds == Spec => []OnceInv
  BY InitOnce, NextOnce, PTL DEF Spec

\* No step is done twice: not the dump, the stage, the updates, or any other of the
\* steps that several tasks and hooks lead to.
THEOREM StepsOnceSafe == Spec => []StepsOnce
<1>1. OnceInv => StepsOnce
  <2> SUFFICES ASSUME OnceInv, NEW s \in Range(log)
               PROVE  \E i \in DOMAIN log : Positions(s) = {i}
    BY DEF StepsOnce
  <2>1. PICK i \in DOMAIN log : log[i] = s
    BY DEF Range
  <2>2. s \in Names
    BY <2>1 DEF OnceInv, TypeInv
  <2>3. Once(log, s)
    BY <2>1, <2>2 DEF OnceInv, LogInv, In
  <2> QED
    BY <2>1, <2>3 DEF Once, Positions
<1> QED
  BY <1>1, OnceHolds, PTL

(***************************************************************************)
(* What comes before what.                                                 *)
(***************************************************************************)
\* Every thing of N in q has a thing of G before it.
Guarded(q, G, N) ==
  \A j \in DOMAIN q : q[j] \in N => \E i \in DOMAIN q : i < j /\ q[i] \in G

\* A task is on the agenda, or it was.
Called(t) == In(agenda, Invoke(t)) \/ t \in invoked

\* The commands that publish a release, and how far they are when they start to deploy.
LinkCmd == cmd \in {"deploy", "deploy:rollback", "deploy:install"}
Opened == \/ cmd \in {"deploy", "deploy:rollback"} /\ Ran(cmd)
          \/ cmd = "deploy:install" /\ cmd \in invoked

\* The task of the platform that links the settings, the one that puts the database
\* back, and the one that backs it up with the task it calls for that.
SettingsTask == OfPlatform(flags, "drupal:settings", "wordpress:settings")
RevertTask == OfPlatform(flags, "drupal:revert_database", "wordpress:revert_database")
BackupTask == OfPlatform(flags, "drupal:dbbackup", "wordpress:dbbackup")
DumpTask == OfPlatform(flags, "drush:sqldump", "wpcli:dbexport")

\* Commands that start behind the loading of the platform, what is on their agenda, and
\* which of it are tasks.
Late == Unloaded \cup {"deploy:published"}
LateTasks == Late \cup {"deploy:symlink:web"}
LateThings == LateTasks \cup {"link", "web", "drupal:settings", "wordpress:settings"}

\* Such a command loads no platform and comes to nothing else.
LateInv ==
  cmd \in Late =>
    /\ \A x : In(agenda, x) => x.what \in LateThings
    /\ \A s : In(log, s) => s \in LateThings
    /\ \A t \in DOMAIN actions : t \in LateThings => t \in LateTasks
    /\ \A t \in LateTasks :
         /\ \A x : ~In(Entry(prereqs, t), x)
         /\ \A x : In(Entry(actions, t), x) => x.what \in LateThings

\* A task that only one other leads to was called by that one, or is the command.
FamilyInv ==
  /\ \A t \in {"deploy", "deploy:rollback", "deploy:install", "drush:sqlsync"} :
       Called(t) => cmd = t
  /\ \A t \in {"deploy:starting", "deploy:publishing"} : Called(t) => cmd = t \/ Opened
  /\ Called("wordpress:install") => cmd = "deploy:install"
  /\ Called("web:load_platform") => cmd = "web:load_platform" \/ "deploy:starting" \in invoked
  /\ Called("drupal:dbbackup") => "deploy:publishing" \in invoked
  /\ Called("wordpress:dbbackup") => "deploy:published" \in invoked
  /\ Called("deploy:symlink:release") => cmd = "deploy:symlink:release" \/ Ran("deploy:publishing")
  /\ Called("deploy:symlink:settings") =>
       cmd = "deploy:symlink:settings" \/ Ran("deploy:symlink:release")
  /\ Called(SettingsTask) => Ran("deploy:symlink:settings")
  /\ LinkCmd /\ Called(DumpTask) => Ran(BackupTask)
  /\ Called(RevertTask) => Loaded
  /\ \A t \in Names : Called(t) =>
       t \in BaseTasks \cup PlatformTasks(flags) \cup {"wordpress:install"}

\* A task that is still to run, and a task that is anywhere on the agenda.
ToRun(t) == {Act(t)} \cup (IF t \in invoked THEN {} ELSE {Invoke(t)})
Either(tasks) == {Invoke(t) : t \in tasks} \cup {Act(t) : t \in tasks}

\* What has the platform's file loaded, and what calls for its tasks.
LoadGuards == ToRun("web:load_platform") \cup {Extend("platform")}
              \cup (IF "deploy:starting" \in invoked THEN {} ELSE {Invoke("deploy:starting")})
LoadNeeds ==
  Either({"deploy:publishing", "deploy:published", "deploy:symlink:release",
          "deploy:symlink:settings", "drupal:settings", "wordpress:settings",
          "drupal:dbbackup", "wordpress:dbbackup", "drupal:install"})
  \cup {Act("deploy:install")}

\* What has the settings linked, and what updates the database.
Updates == {"updatedb", "features", "config", "wpcfm"}
UpdateTasks == {"drush:update", "wpcli:update", "drush:updatedb", "drush:features:revert",
                "drush:configuration:sync", "wpcli:wpcfm:pull"}
SettingsGuards ==
  ToRun("deploy:publishing") \cup ToRun("deploy:symlink:release")
  \cup ToRun("deploy:symlink:settings") \cup ToRun(SettingsTask) \cup {Op("settings")}
UpdateNeeds == Either(UpdateTasks \cup {"deploy:published"}) \cup {Act("deploy:install")}
               \cup {Op(s) : s \in Updates}

\* What has the database backed up, which task it comes before, and what comes with and
\* after that task: the link on Drupal, the updates on WordPress.
DumpGuards == ToRun(BackupTask) \cup ToRun(DumpTask) \cup {Op("dump")}
BackupStart == OfPlatform(flags, "deploy:publishing", "deploy:published")
DumpWaits == IF flags.platform = "drupal"
             THEN {"deploy:symlink:release", "deploy:symlink:settings", "drupal:settings",
                   "wordpress:settings"}
             ELSE UpdateTasks
DumpOps == IF flags.platform = "drupal" THEN {"link", "settings"} ELSE Updates
DumpNeeds == Either(DumpWaits) \cup {Act(BackupStart)} \cup {Op(s) : s \in DumpOps}

\* What the tables say of these.
Does(t, x) == In(Entry(actions, t), x)
Calls(t, u) == Does(t, Invoke(u))
Needs(t, u) == In(Entry(prereqs, t), u)
CallsInv ==
  /\ BaseTasks \subseteq DOMAIN actions
  /\ Needs("deploy:starting", "web:load_platform")
  /\ Calls("deploy:publishing", "deploy:symlink:release")
  /\ Calls("deploy:symlink:release", "deploy:symlink:settings")
  /\ Calls("deploy:symlink:settings", SettingsTask)
  /\ Does("web:load_platform", Extend("platform"))
  /\ Does("drush:sqldump", Op("dump")) /\ Does("wpcli:dbexport", Op("dump"))
  /\ \A t \in {"deploy", "deploy:rollback"} :
       /\ Guarded(Entry(actions, t), {Invoke("deploy:starting")}, LoadNeeds)
       /\ Guarded(Entry(actions, t), {Invoke("deploy:publishing")}, UpdateNeeds)
  /\ Needs("deploy:install", "deploy:starting") /\ Needs("deploy:install", "deploy:publishing")
  /\ Guarded(InvokeAll(Entry(prereqs, "deploy:install")), {Invoke("deploy:starting")},
             LoadNeeds)
  /\ Calls("deploy:rollback_release_path", RevertTask) => Loaded
  /\ Loaded => /\ PlatformTasks(flags) \subseteq DOMAIN actions
               /\ Does(SettingsTask, Op("settings"))
               /\ Calls(BackupTask, DumpTask)
               /\ Needs(BackupStart, BackupTask)

\* Before a task of the platform comes what has the platform loaded, unless it was.
LoadInv == cmd \notin Late => Loaded \/ Guarded(agenda, LoadGuards, LoadNeeds)

\* Before an update of the database comes what links the settings, unless they were
\* linked.
SettingsInv == LinkCmd => In(log, "settings") \/ Guarded(agenda, SettingsGuards, UpdateNeeds)

\* Before the link, on WordPress before an update, comes what backs the database up,
\* unless that was done.
BackupInv == LinkCmd => In(log, "dump") \/ Guarded(agenda, DumpGuards, DumpNeeds)

\* The steps done so far came in that order.
OrderInv ==
  /\ In(log, "link") => LinkCmd \/ cmd \in Unloaded
  /\ LinkCmd => \A s \in Updates : Before("dump", s) /\ Before("settings", s)
  /\ LinkCmd /\ flags.platform = "drupal" =>
       /\ Before("dump", "link")
       /\ In(log, "settings") => In(log, "dump")

ComesInv == /\ FamilyInv /\ CallsInv /\ LateInv
            /\ LoadInv /\ SettingsInv /\ BackupInv

\* What any step does to the agenda and to the tasks that were invoked.
Effect ==
  /\ UNCHANGED <<cmd, flags>> /\ invoked \subseteq invoked'
  /\ \A t : Ran(t) => Ran(t)'
  /\ Loaded => Loaded'
  /\ \A t : Called(t)' =>
       \/ Called(t)
       \/ \E p \in invoked' : MayNeed(flags, p, t)
       \/ \E p \in DOMAIN actions : Ran(p)' /\ MayInvoke(cmd, flags, p, t) /\ Calls(p, t)

\* A task that is invoked again calls for nothing.
LEMMA EffectAgain == ASSUME OnceInv, InvokeTask, Subject \in invoked PROVE Effect
<1>1. /\ Replace(<<>>) /\ agenda # <<>> /\ UNCHANGED <<cmd, flags, invoked>>
      /\ UNCHANGED actions
  BY DEF InvokeTask, Due, tables
<1>2. \A t : Called(t)' => Called(t)
  BY <1>1, Shorter DEF Called
<1> QED
  BY <1>1, <1>2, Shorter DEF Effect, Loaded

\* A task that is invoked for the first time calls for its prerequisites.
LEMMA EffectFirst == ASSUME OnceInv, InvokeTask, Subject \notin invoked PROVE Effect
<1>1. \A t : Called(t)' => Called(t) \/ MayNeed(flags, Subject, t)
  <2> SUFFICES ASSUME NEW t, Called(t)', ~Called(t)
               PROVE  MayNeed(flags, Subject, t)
    OBVIOUS
  <2>1. t # Subject
    BY FirstFacts DEF Called
  <2>2. In(agenda', Invoke(t))
    BY <2>1, FirstFacts DEF Called
  <2>3. In(NewItems, Invoke(t))
    BY <2>2, FirstFacts DEF Called
  <2>4. MayNeed(flags, Subject, Invoke(t).what)
    BY <2>3, FirstFacts, ItemParts
  <2> QED
    BY <2>4, ItemParts
<1>2. /\ UNCHANGED <<cmd, flags, actions>> /\ invoked' = invoked \cup {Subject}
      /\ \A t : Ran(t) => Ran(t)'
  BY FirstFacts
<1> QED
  BY <1>1, <1>2 DEF Effect, Loaded

\* The actions of a task call for what they invoke.
LEMMA EffectAct == ASSUME OnceInv, RunActions PROVE Effect
<1>1. /\ UNCHANGED <<cmd, flags, actions, invoked>>
      /\ \A t : Ran(t) => Ran(t)'
  BY ActFacts
<1>2. ASSUME NEW t, Called(t)', ~Called(t)
      PROVE  /\ \A p : p = Subject => Ran(p)'
             /\ MayInvoke(cmd, flags, Subject, t)
             /\ Subject \in DOMAIN actions /\ Calls(Subject, t)
  <2>1. In(agenda', Invoke(t)) /\ ~In(agenda, Invoke(t))
    BY <1>1, <1>2 DEF Called
  <2>2. In(actions[Subject], Invoke(t)) /\ Subject \in DOMAIN actions
    BY <2>1, ActFacts
  <2>3. FineItem(cmd, flags, Subject, Invoke(t))
    BY <2>2, ActFacts
  <2>4. \A p : p = Subject => Ran(p)'
    BY ActFacts
  <2> QED
    BY <2>2, <2>3, <2>4, ItemParts DEF FineItem, Calls, Does, Entry
<1> QED
  BY <1>1, <1>2 DEF Effect, Loaded

\* So does every other step.
LEMMA StepEffect == OnceInv /\ [Next]_vars => Effect
<1> SUFFICES ASSUME OnceInv, [Next]_vars
             PROVE  Effect
  OBVIOUS
<1>1. CASE UNCHANGED <<cmd, flags, actions, invoked, agenda>>
  BY <1>1 DEF Effect, Ran, Called, Loaded
<1>2. CASE InvokeTask
  BY <1>2, EffectAgain, EffectFirst
<1>3. CASE RunActions
  BY <1>3, EffectAct
<1>4. CASE Replace(<<>>) /\ agenda # <<>> /\ UNCHANGED <<cmd, flags, invoked>>
           /\ DOMAIN actions \subseteq DOMAIN actions'
  <2>1. \A t : Called(t)' => Called(t)
    BY <1>4, Shorter DEF Called
  <2> QED
    BY <1>4, <2>1, Shorter DEF Effect, Loaded
<1>5. DoOp => /\ Replace(<<>>) /\ agenda # <<>> /\ UNCHANGED <<cmd, flags, invoked>>
              /\ DOMAIN actions \subseteq DOMAIN actions'
  BY DEF DoOp, Due, tables
<1>6. AddHooks => /\ Replace(<<>>) /\ agenda # <<>> /\ UNCHANGED <<cmd, flags, invoked>>
                  /\ DOMAIN actions \subseteq DOMAIN actions'
  BY DEF AddHooks, Due, Enhance
<1> QED
  BY <1>1, <1>2, <1>3, <1>4, <1>5, <1>6
     DEF Next, vars, tables, InvokeUnknown, OpFails, Finish

\* A task that only one other leads to is called by that one.
LEMMA FamilyKept == ASSUME OnceInv, FamilyInv, CallsInv, Effect PROVE FamilyInv'
<1>1. /\ flags' = flags /\ cmd' = cmd /\ flags \in Flags
      /\ invoked \subseteq invoked' /\ (\A t : Ran(t) => Ran(t)') /\ (Loaded => Loaded')
      /\ Opened => Opened'
  BY DEF Effect, Opened, OnceInv, TypeInv
<1>2. ASSUME NEW t, Called(t)'
      PROVE  \/ Called(t)
             \/ \E p \in invoked' : MayNeed(flags, p, t)
             \/ \E p \in DOMAIN actions :
                  Ran(p)' /\ MayInvoke(cmd, flags, p, t) /\ Calls(p, t)
  BY <1>2 DEF Effect
<1>3. /\ SettingsTask' = SettingsTask /\ RevertTask' = RevertTask
      /\ BackupTask' = BackupTask /\ DumpTask' = DumpTask
      /\ PlatformTasks(flags') = PlatformTasks(flags)
      /\ SettingsTask \in {"drupal:settings", "wordpress:settings"}
      /\ RevertTask \in {"drupal:revert_database", "wordpress:revert_database"}
  BY <1>1 DEF SettingsTask, RevertTask, BackupTask, DumpTask, OfPlatform
<1>5. \A t \in {"deploy", "deploy:rollback", "deploy:install", "drush:sqlsync"} :
         Called(t)' => cmd' = t
  BY <1>1, <1>2 DEF FamilyInv, MayNeed, MayInvoke
<1>6. \A p \in {"deploy", "deploy:rollback", "deploy:install"} : p \in invoked' => cmd' = p
  BY <1>5 DEF Called
<1>7. \A t \in {"deploy:starting", "deploy:publishing"} : Called(t)' => cmd' = t \/ Opened'
  <2> SUFFICES ASSUME NEW t \in {"deploy:starting", "deploy:publishing"}, Called(t)', ~Called(t)
               PROVE  Opened'
    BY <1>1 DEF FamilyInv
  <2>1. CASE \E p \in invoked' : MayNeed(flags, p, t)
    <3>1. "deploy:install" \in invoked'
      BY <2>1 DEF MayNeed
    <3> QED
      BY <3>1, <1>6 DEF Opened
  <2>2. CASE \E p : Ran(p)' /\ MayInvoke(cmd, flags, p, t)
    <3>1. PICK p \in {"deploy", "deploy:rollback"} : Ran(p)'
      BY <2>2 DEF MayInvoke
    <3>2. cmd' = p
      BY <3>1, <1>6 DEF Ran
    <3> QED
      BY <3>1, <3>2 DEF Opened
  <2> QED
    BY <2>1, <2>2, <1>2
<1>8. Called("wordpress:install")' => cmd' = "deploy:install"
  <2> SUFFICES ASSUME Called("wordpress:install")', ~Called("wordpress:install")
               PROVE  cmd' = "deploy:install"
    BY <1>1 DEF FamilyInv
  <2>1. Ran("deploy:install")'
    BY <1>2 DEF MayNeed, MayInvoke
  <2> QED
    BY <2>1, <1>6 DEF Ran
<1>9. Called("web:load_platform")' =>
        cmd' = "web:load_platform" \/ "deploy:starting" \in invoked'
  BY <1>1, <1>2 DEF FamilyInv, MayNeed, MayInvoke
<1>10. Called("drupal:dbbackup")' => "deploy:publishing" \in invoked'
  BY <1>1, <1>2 DEF FamilyInv, MayNeed, MayInvoke
<1>11. Called("wordpress:dbbackup")' => "deploy:published" \in invoked'
  BY <1>1, <1>2 DEF FamilyInv, MayNeed, MayInvoke
<1>12. Called("deploy:symlink:release")' =>
         cmd' = "deploy:symlink:release" \/ Ran("deploy:publishing")'
  BY <1>1, <1>2 DEF FamilyInv, MayNeed, MayInvoke
<1>13. Called("deploy:symlink:settings")' =>
         cmd' = "deploy:symlink:settings" \/ Ran("deploy:symlink:release")'
  BY <1>1, <1>2 DEF FamilyInv, MayNeed, MayInvoke
<1>14. Called(SettingsTask)' => Ran("deploy:symlink:settings")'
  BY <1>1, <1>2, <1>3 DEF FamilyInv, MayNeed, MayInvoke, Called
<1>15. (LinkCmd /\ Called(DumpTask) => Ran(BackupTask))'
  <2> SUFFICES ASSUME LinkCmd, NEW d, d = DumpTask, Called(d)', NEW k, k = BackupTask
               PROVE  Ran(k)'
    BY <1>1, <1>3 DEF LinkCmd, Called, Ran
  <2>1. CASE Called(d)
    BY <2>1, <1>1 DEF FamilyInv
  <2>2. CASE flags.platform = "drupal"
    <3>1. d = "drush:sqldump" /\ k = "drupal:dbbackup"
      BY <2>2 DEF DumpTask, BackupTask, OfPlatform
    <3> QED
      BY <3>1, <2>1, <1>2 DEF MayNeed, MayInvoke
  <2>3. CASE flags.platform # "drupal"
    <3>1. d = "wpcli:dbexport" /\ k = "wordpress:dbbackup"
      BY <2>3 DEF DumpTask, BackupTask, OfPlatform
    <3> QED
      BY <3>1, <2>1, <1>2 DEF MayNeed, MayInvoke
  <2> QED
    BY <2>2, <2>3
<1>16. Called(RevertTask)' => Loaded'
  <2> SUFFICES ASSUME NEW r, r = RevertTask, Called(r)', ~Called(r)
               PROVE  Loaded'
    BY <1>1, <1>3 DEF FamilyInv, Called
  <2>1. Calls("deploy:rollback_release_path", r)
    BY <1>2, <1>3 DEF MayNeed, MayInvoke
  <2> QED
    BY <2>1, <1>1 DEF CallsInv
<1>17. \A t \in Names : Called(t)' =>
         t \in BaseTasks \cup PlatformTasks(flags') \cup {"wordpress:install"}
  <2> SUFFICES ASSUME NEW t \in Names, Called(t)', ~Called(t)
               PROVE  t \in BaseTasks \cup PlatformTasks(flags) \cup {"wordpress:install"}
    BY <1>3 DEF FamilyInv
  <2>1. CASE \E p : MayInvoke(cmd, flags, p, t)
    BY <2>1 DEF MayInvoke
  <2>2. CASE \E p : MayNeed(flags, p, t)
    BY <2>2 DEF MayNeed, BaseTasks, PlatformTasks
  <2> QED
    BY <2>1, <2>2, <1>2
<1> QED
  BY <1>5, <1>7, <1>8, <1>9, <1>10, <1>11, <1>12, <1>13, <1>14, <1>15, <1>16, <1>17
     DEF FamilyInv

\* What is in two sequences, one behind the other.
LEMMA InBoth ==
  ASSUME NEW S, NEW p \in Seq(S), NEW q \in Seq(S)
  PROVE  \A x : In(p \o q, x) <=> In(p, x) \/ In(q, x)
<1> DEFINE n == p \o q
<1>1. /\ DOMAIN n = 1..(Len(p) + Len(q)) /\ Len(p) \in Nat /\ Len(q) \in Nat
      /\ DOMAIN p = 1..Len(p) /\ DOMAIN q = 1..Len(q)
      /\ \A i \in 1..Len(p) : n[i] = p[i]
      /\ \A i \in DOMAIN n : i > Len(p) => n[i] = q[i - Len(p)]
  OBVIOUS
<1> HIDE DEF n
<1>2. \A i \in DOMAIN q : i + Len(p) \in DOMAIN n /\ n[i + Len(p)] = q[i]
  <2> SUFFICES ASSUME NEW i \in 1..Len(q)
               PROVE  i + Len(p) \in DOMAIN n /\ n[i + Len(p)] = q[i]
    BY <1>1
  <2>1. i + Len(p) \in DOMAIN n /\ i + Len(p) > Len(p) /\ (i + Len(p)) - Len(p) = i
    BY <1>1
  <2> QED
    BY <1>1, <2>1
<1>3. \A i \in DOMAIN n : (i \in DOMAIN p /\ n[i] = p[i])
                          \/ (i - Len(p) \in DOMAIN q /\ n[i] = q[i - Len(p)])
  BY <1>1
<1>4. \A i \in DOMAIN p : i \in DOMAIN n /\ n[i] = p[i]
  BY <1>1
<1>5. ASSUME NEW x
      PROVE  In(n, x) <=> In(p, x) \/ In(q, x)
  BY <1>2, <1>3, <1>4 DEF In
<1> QED
  BY <1>5 DEF n

\* What a file adds to a task that has one row in it.
LEMMA AddedRow ==
  ASSUME NEW rows, NEW t, NEW q, Row(t, q) \in rows, \A r \in rows : r.task = t => r.adds = q
  PROVE  Added(rows, t) = q
<1>1. \E r \in rows : r.task = t
  BY RowParts
<1> DEFINE r == CHOOSE r \in rows : r.task = t
<1>2. r \in rows /\ r.task = t
  BY <1>1
<1> QED
  BY <1>1, <1>2 DEF Added

\* Nothing is added to a task without a row.
LEMMA AddedNone ==
  ASSUME NEW rows, NEW t, \A r \in rows : r.task # t
  PROVE  Added(rows, t) = <<>>
  BY DEF Added

\* An entry of a table that was added to.
LEMMA EnhancedEntry ==
  ASSUME NEW S, NEW table, NEW rows, NEW t,
         Entry(table, t) \in Seq(S), Added(rows, t) \in Seq(S)
  PROVE  /\ \A x : In(Entry(Enhance(table, rows), t), x)
                     <=> In(Entry(table, t), x) \/ In(Added(rows, t), x)
         /\ Added(rows, t) = <<>> => Entry(Enhance(table, rows), t) = Entry(table, t)
<1> DEFINE p == Entry(table, t)
           q == Added(rows, t)
<1>1. Entry(Enhance(table, rows), t) = p \o q
  <2>1. CASE t \in DOMAIN Enhance(table, rows)
    BY <2>1 DEF Entry, Enhance
  <2>2. CASE t \notin DOMAIN Enhance(table, rows)
    <3>1. t \notin DOMAIN table /\ t \notin {r.task : r \in rows}
      BY <2>2 DEF Enhance
    <3>2. Entry(table, t) = <<>> /\ Added(rows, t) = <<>>
      BY <3>1 DEF Entry, Added
    <3> QED
      BY <2>2, <3>2 DEF Entry
  <2> QED
    BY <2>1, <2>2
<1>2. p \in Seq(S) /\ q \in Seq(S)
  OBVIOUS
<1> HIDE DEF p, q
<1>3. \A x : In(p \o q, x) <=> In(p, x) \/ In(q, x)
  BY <1>2, InBoth
<1>4. q = <<>> => p \o q = p
  BY <1>2
<1> QED
  BY <1>1, <1>3, <1>4 DEF p, q

\* What is in an entry of the actions that was added to.
LEMMA ActionsEntry ==
  ASSUME NEW c, NEW f, NEW table, NEW rows, NEW t, FineTable(c, f, table),
         \A r \in rows : FineAdd(c, f, r)
  PROVE  /\ \A x : In(Entry(Enhance(table, rows), t), x)
                     <=> In(Entry(table, t), x) \/ In(Added(rows, t), x)
         /\ Added(rows, t) = <<>> => Entry(Enhance(table, rows), t) = Entry(table, t)
<1>1. Entry(table, t) \in Seq(Items)
  BY DEF FineTable, FineRow, Entry
<1>2. Added(rows, t) \in Seq(Items)
  <2>0. <<>> \in Seq(Items)
    OBVIOUS
  <2>1. \A r \in rows : r.adds \in Seq(Items)
    BY DEF FineAdd, FineRow
  <2>2. Added(rows, t) = <<>> \/ \E r \in rows : Added(rows, t) = r.adds
    BY AddedIs
  <2> QED
    BY ONLY <2>0, <2>1, <2>2
<1> QED
  BY <1>1, <1>2, EnhancedEntry

\* What is in an entry of the prerequisites that was added to.
LEMMA NeedsOfEntry ==
  ASSUME NEW f, NEW table, NEW rows, NEW t, FineNeedsTable(f, table),
         \A r \in rows : NeedAdd(f, r)
  PROVE  /\ \A x : In(Entry(Enhance(table, rows), t), x)
                     <=> In(Entry(table, t), x) \/ In(Added(rows, t), x)
         /\ Added(rows, t) = <<>> => Entry(Enhance(table, rows), t) = Entry(table, t)
<1>1. Entry(table, t) \in Seq(Names)
  BY DEF FineNeedsTable, FineNeeds, Entry
<1>2. Added(rows, t) \in Seq(Names)
  <2>0. <<>> \in Seq(Names)
    OBVIOUS
  <2>1. \A r \in rows : r.adds \in Seq(Names)
    BY DEF NeedAdd, FineNeeds
  <2>2. Added(rows, t) = <<>> \/ \E r \in rows : Added(rows, t) = r.adds
    BY AddedIs
  <2> QED
    BY ONLY <2>0, <2>1, <2>2
<1> QED
  BY <1>1, <1>2, EnhancedEntry

(***************************************************************************)
(* What the tables say when a command starts.                              *)
(***************************************************************************)
\* Every stock task has a row.
LEMMA StockDefined == \A t \in StockTasks : \E r \in StockActions : r.task = t
  BY RowParts DEF StockActions, StockTasks

\* So has every other task of the start.
LEMMA ProjectDefined ==
  ASSUME NEW f
  PROVE  \A t \in BaseTasks \ StockTasks : \E r \in ProjectActions(f) : r.task = t
<1>1. \A t \in {"web:load_platform", "web:add_build", "web:run_build", "web:build",
                "web:varnish:ban", "web:restart", "deploy:install", "deploy:symlink:web",
                "deploy:symlink:settings", "deploy:cleanup", "deploy:cleanup_rollback"} :
         \E r \in WebActions(f) : r.task = t
  BY RowParts DEF WebActions
<1>2. \A t \in {"rsync:hook_scm", "rsync:stage", "rsync", "rsync:release", "rsync:check",
                "rsync:create_stage", "rsync:create_release",
                "rsync:set_current_revision"} :
         \E r \in RsyncActions(f) : r.task = t
  BY RowParts DEF RsyncActions
<1>3. \A t \in {"drush:initialize", "drush:drushdir", "drush:aliases", "drush:siteinstall",
                "drush:sqlsync", "drush:rsync", "drush:sqldump", "drush:updatedb",
                "drush:cc", "drush:update", "drush:configuration:sync",
                "drush:features:revert", "drush:sapi:reindex"} :
         \E r \in DrushActions(f) : r.task = t
  BY RowParts DEF DrushActions
<1>4. \A t \in {"wpcli:dbexport", "wpcli:wpcfm:pull", "wpcli:update"} :
         \E r \in WpcliActions(f) : r.task = t
  BY RowParts DEF WpcliActions
<1> QED
  BY <1>1, <1>2, <1>3, <1>4 DEF BaseTasks, StockTasks, ProjectActions

\* The stock rows that the order of steps depends on.
LEMMA StockAdds ==
  /\ Added(StockActions, "deploy:publishing") = InvokeAll(<<"deploy:symlink:release">>)
  /\ Added(StockActions, "deploy:rollback_release_path") = Ops(<<"pick">>)
  /\ Added(StockActions, "deploy") =
       InvokeAll(<<"deploy:starting", "deploy:started", "deploy:updating", "deploy:updated",
                   "deploy:publishing", "deploy:published", "deploy:finishing",
                   "deploy:finished">>)
  /\ Added(StockActions, "deploy:rollback") =
       InvokeAll(<<"deploy:starting", "deploy:started", "deploy:reverting",
                   "deploy:reverted", "deploy:publishing", "deploy:published",
                   "deploy:finishing_rollback", "deploy:finished">>)
<1> DEFINE D == InvokeAll(<<"deploy:starting", "deploy:started", "deploy:updating",
                "deploy:updated",
                 "deploy:publishing", "deploy:published", "deploy:finishing",
                 "deploy:finished">>)
           R == InvokeAll(<<"deploy:starting", "deploy:started", "deploy:reverting",
                 "deploy:reverted", "deploy:publishing", "deploy:published",
                 "deploy:finishing_rollback", "deploy:finished">>)
<1>1. /\ Row("deploy:publishing", InvokeAll(<<"deploy:symlink:release">>)) \in StockActions
      /\ Row("deploy:rollback_release_path", Ops(<<"pick">>)) \in StockActions
      /\ Row("deploy", D) \in StockActions /\ Row("deploy:rollback", R) \in StockActions
  BY DEF StockActions
<1>2. \A r \in StockActions :
        /\ r.task = "deploy:publishing" => r.adds = InvokeAll(<<"deploy:symlink:release">>)
        /\ r.task = "deploy:rollback_release_path" => r.adds = Ops(<<"pick">>)
  BY RowParts DEF StockActions
<1>3. \A r \in StockActions : r.task = "deploy" => r.adds = D
  BY RowParts DEF StockActions
<1>4. \A r \in StockActions : r.task = "deploy:rollback" => r.adds = R
  BY RowParts DEF StockActions
<1> HIDE DEF D, R
<1>5. Added(StockActions, "deploy:publishing") = InvokeAll(<<"deploy:symlink:release">>)
  BY <1>1, <1>2, AddedRow
<1>6. Added(StockActions, "deploy:rollback_release_path") = Ops(<<"pick">>)
  BY <1>1, <1>2, AddedRow
<1>7. Added(StockActions, "deploy") = D
  BY <1>1, <1>3, AddedRow
<1>8. Added(StockActions, "deploy:rollback") = R
  BY <1>1, <1>4, AddedRow
<1> QED
  BY <1>5, <1>6, <1>7, <1>8 DEF D, R

\* Those of the project.
LEMMA ProjectAdds ==
  ASSUME NEW f
  PROVE  /\ \A t \in {"deploy", "deploy:rollback", "deploy:rollback_release_path"} :
              Added(ProjectActions(f), t) = <<>>
         /\ Added(ProjectActions(f), "deploy:symlink:release") =
              InvokeAll(<<"deploy:symlink:web", "deploy:symlink:settings">>)
         /\ Added(ProjectActions(f), "deploy:symlink:settings") =
              InvokeAll(<<OfPlatform(f, "drupal:settings", "wordpress:settings")>>)
         /\ Added(ProjectActions(f), "web:load_platform") = <<Extend("platform")>>
         /\ Added(ProjectActions(f), "drush:sqldump") = Ops(<<"dump">>)
         /\ Added(ProjectActions(f), "wpcli:dbexport") = Ops(<<"dump">>)
<1>1. \A r \in WebActions(f) :
        /\ r.task \notin {"deploy", "deploy:rollback", "deploy:rollback_release_path",
                          "drush:sqldump", "wpcli:dbexport"}
        /\ r.task = "deploy:symlink:release" =>
             r.adds = InvokeAll(<<"deploy:symlink:web", "deploy:symlink:settings">>)
        /\ r.task = "deploy:symlink:settings" =>
             r.adds = InvokeAll(<<OfPlatform(f, "drupal:settings", "wordpress:settings")>>)
        /\ r.task = "web:load_platform" => r.adds = <<Extend("platform")>>
  BY RowParts DEF WebActions
<1> DEFINE Others == {"deploy", "deploy:rollback", "deploy:rollback_release_path",
                      "deploy:symlink:release", "deploy:symlink:settings",
                      "web:load_platform"}
<1>2. \A r \in RsyncActions(f) : r.task \notin Others \cup {"drush:sqldump", "wpcli:dbexport"}
  BY RowParts DEF RsyncActions
<1>3. \A r \in DrushActions(f) :
        /\ r.task \notin Others \cup {"wpcli:dbexport"}
        /\ r.task = "drush:sqldump" => r.adds = Ops(<<"dump">>)
  BY RowParts DEF DrushActions
<1>4. \A r \in WpcliActions(f) :
        /\ r.task \notin Others \cup {"drush:sqldump"}
        /\ r.task = "wpcli:dbexport" => r.adds = Ops(<<"dump">>)
  BY RowParts DEF WpcliActions
<1>5. /\ Row("deploy:symlink:release",
             InvokeAll(<<"deploy:symlink:web", "deploy:symlink:settings">>)) \in WebActions(f)
      /\ Row("deploy:symlink:settings",
             InvokeAll(<<OfPlatform(f, "drupal:settings", "wordpress:settings")>>))
           \in WebActions(f)
      /\ Row("web:load_platform", <<Extend("platform")>>) \in WebActions(f)
      /\ Row("drush:sqldump", Ops(<<"dump">>)) \in DrushActions(f)
      /\ Row("wpcli:dbexport", Ops(<<"dump">>)) \in WpcliActions(f)
  BY DEF WebActions, DrushActions, WpcliActions
<1>6. \A r \in ProjectActions(f) : \/ r \in WebActions(f) \/ r \in RsyncActions(f)
                                   \/ r \in DrushActions(f) \/ r \in WpcliActions(f)
  BY DEF ProjectActions
<1>7. WebActions(f) \cup DrushActions(f) \cup WpcliActions(f) \subseteq ProjectActions(f)
  BY DEF ProjectActions
<1>8. ASSUME NEW t \in {"deploy", "deploy:rollback", "deploy:rollback_release_path"}
      PROVE  Added(ProjectActions(f), t) = <<>>
  BY <1>1, <1>2, <1>3, <1>4, <1>6, AddedNone
<1>9. Added(ProjectActions(f), "deploy:symlink:release") =
        InvokeAll(<<"deploy:symlink:web", "deploy:symlink:settings">>)
  BY <1>1, <1>2, <1>3, <1>4, <1>5, <1>6, <1>7, AddedRow
<1>10. Added(ProjectActions(f), "deploy:symlink:settings") =
         InvokeAll(<<OfPlatform(f, "drupal:settings", "wordpress:settings")>>)
  BY <1>1, <1>2, <1>3, <1>4, <1>5, <1>6, <1>7, AddedRow
<1>11. Added(ProjectActions(f), "web:load_platform") = <<Extend("platform")>>
  BY <1>1, <1>2, <1>3, <1>4, <1>5, <1>6, <1>7, AddedRow
<1>12. Added(ProjectActions(f), "drush:sqldump") = Ops(<<"dump">>)
  BY <1>1, <1>2, <1>3, <1>4, <1>5, <1>6, <1>7, AddedRow
<1>13. Added(ProjectActions(f), "wpcli:dbexport") = Ops(<<"dump">>)
  BY <1>1, <1>2, <1>3, <1>4, <1>5, <1>6, <1>7, AddedRow
<1> QED
  BY <1>8, <1>9, <1>10, <1>11, <1>12, <1>13

\* What is in the entries that the order of steps depends on.
LEMMA InShort ==
  /\ \A s, x : In(InvokeAll(<<s>>), x) <=> x = Invoke(s)
  /\ \A s, x : In(Ops(<<s>>), x) <=> x = Op(s)
  /\ \A s, t, x : In(InvokeAll(<<s, t>>), x) <=> x = Invoke(s) \/ x = Invoke(t)
  /\ \A s, x : In(<<s>>, x) <=> x = s
<1>1. ASSUME NEW s
      PROVE  /\ DOMAIN InvokeAll(<<s>>) = {1} /\ InvokeAll(<<s>>)[1] = Invoke(s)
             /\ DOMAIN Ops(<<s>>) = {1} /\ Ops(<<s>>)[1] = Op(s)
             /\ DOMAIN <<s>> = {1} /\ <<s>>[1] = s
  BY DEF InvokeAll, Ops
<1>2. ASSUME NEW s, NEW t
      PROVE  /\ DOMAIN InvokeAll(<<s, t>>) = {1, 2} /\ InvokeAll(<<s, t>>)[1] = Invoke(s)
             /\ InvokeAll(<<s, t>>)[2] = Invoke(t)
  BY DEF InvokeAll
<1>3. ASSUME NEW s, NEW x
      PROVE  /\ In(InvokeAll(<<s>>), x) <=> x = Invoke(s)
             /\ In(Ops(<<s>>), x) <=> x = Op(s)
             /\ In(<<s>>, x) <=> x = s
  BY <1>1 DEF In
<1>4. ASSUME NEW s, NEW t, NEW x
      PROVE  In(InvokeAll(<<s, t>>), x) <=> x = Invoke(s) \/ x = Invoke(t)
  BY <1>2 DEF In
<1> QED
  BY <1>3, <1>4

\* The things of two commands that come before others in the row of a command.
LEMMA RowGuards ==
  ASSUME NEW S, NEW q \in Seq(S), NEW i \in DOMAIN q,
         q[i] \in {"deploy:starting", "deploy:publishing"}
  PROVE  /\ (\A j \in DOMAIN q : j <= i => q[j] \notin
               {"deploy:publishing", "deploy:published", "deploy:symlink:release",
                "deploy:symlink:settings", "drupal:settings", "wordpress:settings",
                "drupal:dbbackup", "wordpress:dbbackup", "drupal:install"})
            => Guarded(InvokeAll(q), {Invoke(q[i])}, LoadNeeds)
         /\ (\A j \in DOMAIN q : j <= i => q[j] \notin UpdateTasks \cup {"deploy:published"})
            => Guarded(InvokeAll(q), {Invoke(q[i])}, UpdateNeeds)
<1>1. \A j \in DOMAIN q : j \in DOMAIN InvokeAll(q) /\ InvokeAll(q)[j] = Invoke(q[j])
  BY DEF InvokeAll
<1>2. DOMAIN InvokeAll(q) = DOMAIN q /\ DOMAIN q \subseteq Nat
  BY DEF InvokeAll
<1>3. \A s, t : Invoke(s) = Invoke(t) => s = t
  BY ItemParts
<1>4. \A s, t : Invoke(s) # Act(t) /\ Invoke(s) # Op(t)
  BY DEF Invoke, Act, Op
<1>5. \A s : Invoke(s) \in LoadNeeds => s \in
               {"deploy:publishing", "deploy:published", "deploy:symlink:release",
                "deploy:symlink:settings", "drupal:settings", "wordpress:settings",
                "drupal:dbbackup", "wordpress:dbbackup", "drupal:install"}
  BY <1>3, <1>4 DEF LoadNeeds, Either
<1>6. \A s : Invoke(s) \in UpdateNeeds => s \in UpdateTasks \cup {"deploy:published"}
  BY <1>3, <1>4 DEF UpdateNeeds, Either
<1>7. \A j \in DOMAIN q : ~(j <= i) => i < j
  BY <1>2
<1> QED
  BY <1>1, <1>2, <1>5, <1>6, <1>7 DEF Guarded

\* The rows of the three commands that deploy, in order.
LEMMA DeployOrder ==
  LET D == <<"deploy:starting", "deploy:started", "deploy:updating", "deploy:updated",
             "deploy:publishing", "deploy:published", "deploy:finishing",
             "deploy:finished">>
      R == <<"deploy:starting", "deploy:started", "deploy:reverting",
             "deploy:reverted", "deploy:publishing", "deploy:published",
             "deploy:finishing_rollback", "deploy:finished">>
      I == <<"deploy:check", "deploy:starting", "deploy:started",
             "deploy:updating", "deploy:updated", "deploy:publishing">>
  IN  /\ \A q \in {D, R} :
           /\ Guarded(InvokeAll(q), {Invoke("deploy:starting")}, LoadNeeds)
           /\ Guarded(InvokeAll(q), {Invoke("deploy:publishing")}, UpdateNeeds)
      /\ Guarded(InvokeAll(I), {Invoke("deploy:starting")}, LoadNeeds)
      /\ In(I, "deploy:starting") /\ In(I, "deploy:publishing")
<1> DEFINE D == <<"deploy:starting", "deploy:started", "deploy:updating", "deploy:updated",
                  "deploy:publishing", "deploy:published", "deploy:finishing",
                  "deploy:finished">>
           R == <<"deploy:starting", "deploy:started", "deploy:reverting",
                  "deploy:reverted", "deploy:publishing", "deploy:published",
                  "deploy:finishing_rollback", "deploy:finished">>
           I == <<"deploy:check", "deploy:starting", "deploy:started",
                  "deploy:updating", "deploy:updated", "deploy:publishing">>
<1>1. /\ D \in Seq(Names) /\ DOMAIN D = 1..8
      /\ D[1] = "deploy:starting" /\ D[2] = "deploy:started" /\ D[3] = "deploy:updating"
      /\ D[4] = "deploy:updated" /\ D[5] = "deploy:publishing"
  BY DEF Names, BaseTasks
<1>2. /\ R \in Seq(Names) /\ DOMAIN R = 1..8
      /\ R[1] = "deploy:starting" /\ R[2] = "deploy:started" /\ R[3] = "deploy:reverting"
      /\ R[4] = "deploy:reverted" /\ R[5] = "deploy:publishing"
  BY DEF Names, BaseTasks
<1>3. /\ I \in Seq(Names) /\ DOMAIN I = 1..6
      /\ I[1] = "deploy:check" /\ I[2] = "deploy:starting" /\ I[6] = "deploy:publishing"
  BY DEF Names, BaseTasks
<1> HIDE DEF D, R, I
<1>4. /\ \A j \in 1..8 : j <= 5 => j \in {1, 2, 3, 4, 5}
      /\ \A j \in 1..8 : j <= 1 => j = 1
      /\ 1 \in 1..8 /\ 5 \in 1..8
  OBVIOUS
<1>5. /\ Guarded(InvokeAll(D), {Invoke("deploy:starting")}, LoadNeeds)
      /\ Guarded(InvokeAll(D), {Invoke("deploy:publishing")}, UpdateNeeds)
  <2>1. Guarded(InvokeAll(D), {Invoke("deploy:starting")}, LoadNeeds)
    <3>1. 1 \in DOMAIN D /\ D[1] = "deploy:starting"
      BY <1>1, <1>4
    <3>2. \A j \in DOMAIN D : j <= 1 => D[j] = "deploy:starting"
      BY <1>1, <1>4
    <3> QED
      BY <1>1, <3>1, <3>2, RowGuards
  <2>2. Guarded(InvokeAll(D), {Invoke("deploy:publishing")}, UpdateNeeds)
    <3>1. 5 \in DOMAIN D /\ D[5] = "deploy:publishing"
      BY <1>1, <1>4
    <3>2. \A j \in DOMAIN D : j <= 5 =>
             D[j] \notin UpdateTasks \cup {"deploy:published"}
      BY <1>1, <1>4 DEF UpdateTasks
    <3> QED
      BY <1>1, <3>1, <3>2, RowGuards
  <2> QED
    BY <2>1, <2>2
<1>6. /\ Guarded(InvokeAll(R), {Invoke("deploy:starting")}, LoadNeeds)
      /\ Guarded(InvokeAll(R), {Invoke("deploy:publishing")}, UpdateNeeds)
  <2>1. Guarded(InvokeAll(R), {Invoke("deploy:starting")}, LoadNeeds)
    <3>1. 1 \in DOMAIN R /\ R[1] = "deploy:starting"
      BY <1>2, <1>4
    <3>2. \A j \in DOMAIN R : j <= 1 => R[j] = "deploy:starting"
      BY <1>2, <1>4
    <3> QED
      BY <1>2, <3>1, <3>2, RowGuards
  <2>2. Guarded(InvokeAll(R), {Invoke("deploy:publishing")}, UpdateNeeds)
    <3>1. 5 \in DOMAIN R /\ R[5] = "deploy:publishing"
      BY <1>2, <1>4
    <3>2. \A j \in DOMAIN R : j <= 5 =>
             R[j] \notin UpdateTasks \cup {"deploy:published"}
      BY <1>2, <1>4 DEF UpdateTasks
    <3> QED
      BY <1>2, <3>1, <3>2, RowGuards
  <2> QED
    BY <2>1, <2>2
<1>7. Guarded(InvokeAll(I), {Invoke("deploy:starting")}, LoadNeeds)
  BY <1>3, RowGuards, 2 \in 1..6, \A j \in 1..6 : j <= 2 => j \in {1, 2}
<1>8. In(I, "deploy:starting") /\ In(I, "deploy:publishing")
  BY <1>3, 2 \in 1..6, 6 \in 1..6 DEF In
<1> QED
  BY <1>5, <1>6, <1>7, <1>8 DEF D, R, I

\* The prerequisites that the order of steps depends on.
LEMMA NeedsAdds ==
  /\ Added(ProjectPrereqs, "deploy:starting") = <<"web:load_platform">>
  /\ Added(ProjectPrereqs, "deploy:install") =
       <<"deploy:check", "deploy:starting", "deploy:started",
         "deploy:updating", "deploy:updated", "deploy:publishing">>
  /\ Added(StockPrereqs, "deploy:install") = <<>>
<1> DEFINE I == <<"deploy:check", "deploy:starting", "deploy:started",
                  "deploy:updating", "deploy:updated", "deploy:publishing">>
<1>1. /\ Row("deploy:starting", <<"web:load_platform">>) \in ProjectPrereqs
      /\ Row("deploy:install", I) \in ProjectPrereqs
  BY DEF ProjectPrereqs
<1>2. \A r \in ProjectPrereqs : r.task = "deploy:starting" => r.adds = <<"web:load_platform">>
  BY RowParts DEF ProjectPrereqs
<1>3. \A r \in ProjectPrereqs : r.task = "deploy:install" => r.adds = I
  BY RowParts DEF ProjectPrereqs
<1>4. \A r \in StockPrereqs : r.task # "deploy:install"
  BY RowParts DEF StockPrereqs
<1> HIDE DEF I
<1>5. Added(ProjectPrereqs, "deploy:starting") = <<"web:load_platform">>
  BY <1>1, <1>2, AddedRow
<1>6. Added(ProjectPrereqs, "deploy:install") = I
  BY <1>1, <1>3, AddedRow
<1>7. Added(StockPrereqs, "deploy:install") = <<>>
  BY <1>4, AddedNone
<1> QED
  BY <1>5, <1>6, <1>7 DEF I

\* The rows of the tasks behind the loading of the platform lead to one another only.
LEMMA LateAdds ==
  ASSUME NEW f, NEW t \in LateTasks
  PROVE  /\ \A x : In(Added(StockActions, t), x) => x.what \in LateThings
         /\ \A x : In(Added(ProjectActions(f), t), x) => x.what \in LateThings
         /\ Added(StockPrereqs, t) = <<>> /\ Added(ProjectPrereqs, t) = <<>>
<1> DEFINE Leads(q) == \A x : In(q, x) => x.what \in LateThings
<1>1. /\ Leads(<<>>) /\ Leads(InvokeAll(<<"deploy:symlink:release">>))
      /\ Leads(Ops(<<"link">>)) /\ Leads(Ops(<<"web">>))
      /\ Leads(InvokeAll(<<"deploy:symlink:web", "deploy:symlink:settings">>))
      /\ Leads(InvokeAll(<<OfPlatform(f, "drupal:settings", "wordpress:settings")>>))
  BY InShort, InNone, ItemParts DEF LateThings, LateTasks, Late, Unloaded, OfPlatform
<1>2. t \in {"deploy:publishing", "deploy:symlink:release", "deploy:symlink:settings",
            "deploy:published", "deploy:symlink:web"}
  BY DEF LateTasks, Late, Unloaded
<1> HIDE DEF Leads
<1>3. \A r \in StockActions : r.task = t => Leads(r.adds)
  BY <1>1, <1>2, RowParts DEF StockActions
<1>4. \A r \in WebActions(f) : r.task = t => Leads(r.adds)
  BY <1>1, <1>2, RowParts DEF WebActions
<1>5. \A r \in RsyncActions(f) : r.task # t
  BY <1>2, RowParts DEF RsyncActions
<1>6. \A r \in DrushActions(f) : r.task # t
  BY <1>2, RowParts DEF DrushActions
<1>7. \A r \in WpcliActions(f) : r.task # t
  BY <1>2, RowParts DEF WpcliActions
<1>8. \A r \in ProjectActions(f) : r.task = t => Leads(r.adds)
  BY <1>4, <1>5, <1>6, <1>7 DEF ProjectActions
<1>9. ASSUME NEW rows, \A r \in rows : r.task = t => Leads(r.adds)
      PROVE  Leads(Added(rows, t))
  <2>1. CASE \E r \in rows : r.task = t
    <3>1. PICK r \in rows : r.task = t /\ Added(rows, t) = r.adds
      BY <2>1, AddedIs DEF Added
    <3> QED
      BY <3>1, <1>9
  <2>2. CASE \A r \in rows : r.task # t
    BY <2>2, <1>1, AddedNone
  <2> QED
    BY <2>1, <2>2
<1>10. Leads(Added(StockActions, t)) /\ Leads(Added(ProjectActions(f), t))
  BY <1>3, <1>8, <1>9
<1>11. \A r \in StockPrereqs : r.task # t
  BY <1>2, RowParts DEF StockPrereqs
<1>12. \A r \in ProjectPrereqs : r.task # t
  BY <1>2, RowParts DEF ProjectPrereqs
<1> QED
  BY <1>10, <1>11, <1>12, AddedNone DEF Leads

\* What the tables say when a command starts, and what a command that starts behind the
\* loading of the platform leads to.
LEMMA InitCalls == Init => CallsInv /\ LateInv
<1> SUFFICES ASSUME Init
             PROVE  CallsInv /\ LateInv
  OBVIOUS
<1> DEFINE sa == Enhance(NoTasks, StockActions)
           sp == Enhance(NoTasks, StockPrereqs)
<1>1. /\ flags \in Flags
      /\ actions = Enhance(sa, ProjectActions(flags))
      /\ prereqs = Enhance(sp, ProjectPrereqs)
  BY FlagAssumption DEF Init, ProjectActions
<1>2. FineTable(cmd, flags, NoTasks) /\ FineNeedsTable(flags, NoTasks) /\ DOMAIN NoTasks = {}
  BY DEF FineTable, FineNeedsTable, NoTasks
<1>3. \A r \in StockActions : FineAdd(cmd, flags, r)
  BY <1>1, StockActionsFine
<1>4. \A r \in ProjectActions(flags) : FineAdd(cmd, flags, r)
  BY <1>1, WebActionsFine, RsyncActionsFine, DrushActionsFine, WpcliActionsFine
     DEF ProjectActions
<1>5. FineTable(cmd, flags, sa) /\ FineNeedsTable(flags, sp)
  BY <1>2, <1>3, StockNeedsFine, EnhanceFine, EnhanceNeedsFine
<1>6. \A t : Entry(NoTasks, t) = <<>>
  BY <1>2 DEF Entry
<1>7. ASSUME NEW t
      PROVE  /\ \A x : In(Entry(sa, t), x) <=> In(Added(StockActions, t), x)
             /\ \A x : In(Entry(sp, t), x) <=> In(Added(StockPrereqs, t), x)
             /\ Added(StockPrereqs, t) = <<>> => Entry(sp, t) = <<>>
  BY <1>2, <1>3, <1>6, ActionsEntry, NeedsOfEntry, StockNeedsFine, InNone
<1>8. ASSUME NEW t \in StockTasks
      PROVE  Entry(sa, t) = Added(StockActions, t)
  <2>1. t \in DOMAIN sa /\ sa[t] = Entry(NoTasks, t) \o Added(StockActions, t)
    BY StockDefined DEF Enhance
  <2>2. Added(StockActions, t) \in Seq(Items)
    <3>1. \A r \in StockActions : r.adds \in Seq(Items)
      BY <1>3 DEF FineAdd, FineRow
    <3> QED
      BY <3>1, AddedIs, StockDefined
  <2>3. Entry(sa, t) = <<>> \o Added(StockActions, t)
    BY <2>1, <1>6 DEF Entry
  <2> QED
    BY <2>2, <2>3
<1> HIDE DEF sa, sp
<1>9. ASSUME NEW t
      PROVE  /\ \A x : Does(t, x) <=> \/ In(Added(StockActions, t), x)
                                      \/ In(Added(ProjectActions(flags), t), x)
             /\ Added(ProjectActions(flags), t) = <<>> => Entry(actions, t) = Entry(sa, t)
  BY <1>1, <1>4, <1>5, <1>7, ActionsEntry DEF Does
<1>10. ASSUME NEW t
       PROVE  \A x : Needs(t, x) <=> \/ In(Added(StockPrereqs, t), x)
                                     \/ In(Added(ProjectPrereqs, t), x)
  BY <1>1, <1>5, <1>7, NeedsOfEntry, ProjectNeedsFine DEF Needs
<1>11. BaseTasks \subseteq DOMAIN actions
  <2>1. \A t \in BaseTasks : \/ \E r \in StockActions : r.task = t
                             \/ \E r \in ProjectActions(flags) : r.task = t
    BY StockDefined, ProjectDefined
  <2>2. DOMAIN actions = {r.task : r \in StockActions} \cup {r.task :
        r \in ProjectActions(flags)}
    BY <1>1, <1>2 DEF Enhance, sa
  <2> QED
    BY <2>1, <2>2
<1>12. Needs("deploy:starting", "web:load_platform")
  BY <1>10, NeedsAdds, InShort
<1>13. /\ Calls("deploy:publishing", "deploy:symlink:release")
       /\ Calls("deploy:symlink:release", "deploy:symlink:settings")
       /\ Calls("deploy:symlink:settings", SettingsTask)
       /\ Does("web:load_platform", Extend("platform"))
       /\ Does("drush:sqldump", Op("dump")) /\ Does("wpcli:dbexport", Op("dump"))
  <2>1. Does("deploy:publishing", Invoke("deploy:symlink:release"))
    BY <1>9, StockAdds, InShort
  <2>2. Does("deploy:symlink:release", Invoke("deploy:symlink:settings"))
    <3>1. Added(ProjectActions(flags), "deploy:symlink:release") =
            InvokeAll(<<"deploy:symlink:web", "deploy:symlink:settings">>)
      BY ProjectAdds
    <3>2. In(Added(ProjectActions(flags), "deploy:symlink:release"),
          Invoke("deploy:symlink:settings"))
      BY <3>1, InShort
    <3> QED
      BY <3>2, <1>9
  <2>3. Does("deploy:symlink:settings", Invoke(SettingsTask))
    <3>1. Added(ProjectActions(flags), "deploy:symlink:settings") =
            InvokeAll(<<SettingsTask>>)
      BY ProjectAdds DEF SettingsTask
    <3>2. In(Added(ProjectActions(flags), "deploy:symlink:settings"), Invoke(SettingsTask))
      BY <3>1, InShort
    <3> QED
      BY <3>2, <1>9
  <2>4. Does("web:load_platform", Extend("platform"))
    <3>1. Added(ProjectActions(flags), "web:load_platform") =
            <<Extend("platform")>>
      BY ProjectAdds
    <3>2. In(Added(ProjectActions(flags), "web:load_platform"), Extend("platform"))
      BY <3>1, InShort
    <3> QED
      BY <3>2, <1>9
  <2>5. Does("drush:sqldump", Op("dump"))
    <3>1. Added(ProjectActions(flags), "drush:sqldump") =
            Ops(<<"dump">>)
      BY ProjectAdds
    <3>2. In(Added(ProjectActions(flags), "drush:sqldump"), Op("dump"))
      BY <3>1, InShort
    <3> QED
      BY <3>2, <1>9
  <2>6. Does("wpcli:dbexport", Op("dump"))
    <3>1. Added(ProjectActions(flags), "wpcli:dbexport") =
            Ops(<<"dump">>)
      BY ProjectAdds
    <3>2. In(Added(ProjectActions(flags), "wpcli:dbexport"), Op("dump"))
      BY <3>1, InShort
    <3> QED
      BY <3>2, <1>9
  <2> QED
    BY <2>1, <2>2, <2>3, <2>4, <2>5, <2>6 DEF Calls
<1>14. \A t \in {"deploy", "deploy:rollback"} :
         /\ Guarded(Entry(actions, t), {Invoke("deploy:starting")}, LoadNeeds)
         /\ Guarded(Entry(actions, t), {Invoke("deploy:publishing")}, UpdateNeeds)
  <2>1. \A t \in {"deploy", "deploy:rollback"} : Entry(actions, t) = Added(StockActions, t)
    BY <1>8, <1>9, ProjectAdds DEF StockTasks
  <2> QED
    BY <2>1, StockAdds, DeployOrder
<1>15. Entry(prereqs, "deploy:install") =
         <<"deploy:check", "deploy:starting", "deploy:started",
           "deploy:updating", "deploy:updated", "deploy:publishing">>
  <2>1. "deploy:install" \in DOMAIN prereqs
    <3>1. \E r \in ProjectPrereqs : r.task = "deploy:install"
      BY RowParts DEF ProjectPrereqs
    <3> QED
      BY <3>1, <1>1 DEF Enhance
  <2>2. Entry(sp, "deploy:install") = <<>>
    BY <1>7, NeedsAdds
  <2>3. prereqs["deploy:install"] = <<>> \o Added(ProjectPrereqs, "deploy:install")
    BY <2>1, <2>2, <1>1 DEF Enhance
  <2> QED
    BY <2>1, <2>3, NeedsAdds DEF Entry
<1>16. /\ Needs("deploy:install", "deploy:starting")
       /\ Needs("deploy:install", "deploy:publishing")
       /\ Guarded(InvokeAll(Entry(prereqs, "deploy:install")), {Invoke("deploy:starting")},
                  LoadNeeds)
  BY <1>15, DeployOrder DEF Needs
<1>17. ~Calls("deploy:rollback_release_path", RevertTask)
  <2>1. Invoke(RevertTask) # Op("pick")
    BY ItemParts
  <2>2. ~In(Added(StockActions, "deploy:rollback_release_path"), Invoke(RevertTask))
    BY <2>1, StockAdds, InShort
  <2>3. ~In(Added(ProjectActions(flags), "deploy:rollback_release_path"), Invoke(RevertTask))
    BY ProjectAdds, InNone
  <2> QED
    BY <2>1, <2>2, <2>3, <1>9 DEF Calls
<1>18. ~Loaded
  <2>1. DOMAIN actions \subseteq BaseTasks
    BY <1>1, InitTables DEF sa
  <2> QED
    BY <2>1 DEF Loaded, PlatformTasks, BaseTasks
<1>19. CallsInv
  BY <1>11, <1>12, <1>13, <1>14, <1>16, <1>17, <1>18 DEF CallsInv
<1>20. ASSUME cmd \in Late
       PROVE  /\ \A x : In(agenda, x) => x.what \in LateThings
              /\ \A s : In(log, s) => s \in LateThings
  <2>1. agenda = <<Invoke(cmd)>> /\ log = <<>>
    BY DEF Init
  <2>2. cmd \in LateThings
    BY <1>20 DEF LateThings, LateTasks
  <2> QED
    BY <2>1, <2>2, InShort, InNone, ItemParts
<1>22. \A t \in DOMAIN actions : t \in LateThings => t \in LateTasks
  <2>1. DOMAIN actions \subseteq BaseTasks
    BY <1>1, InitTables DEF sa
  <2>2. \A t \in LateThings : t \in BaseTasks => t \in LateTasks
    BY DEF LateThings, LateTasks, Late, Unloaded, BaseTasks
  <2> QED
    BY <2>1, <2>2
<1>21. ASSUME NEW t \in LateTasks
       PROVE  /\ \A x : ~In(Entry(prereqs, t), x)
              /\ \A x : In(Entry(actions, t), x) => x.what \in LateThings
  BY <1>9, <1>10, LateAdds, InNone DEF Does, Needs
<1> QED
  BY <1>19, <1>20, <1>21, <1>22 DEF LateInv

\* What capistrano/drupal.rb adds for the order of steps.
LEMMA DrupalAdds ==
  /\ \A r \in DrupalHooks.actions : r.task \notin {"deploy", "deploy:rollback"}
  /\ \A r \in DrupalHooks.prereqs : r.task # "deploy:install"
  /\ In(Added(DrupalHooks.actions, "drupal:settings"), Op("settings"))
  /\ In(Added(DrupalHooks.actions, "drupal:dbbackup"), Invoke("drush:sqldump"))
  /\ In(Added(DrupalHooks.prereqs, "deploy:publishing"), "drupal:dbbackup")
  /\ \A t \in {"drupal:install", "drupal:settings", "drupal:revert_database",
      "drupal:dbbackup"} :
       \E r \in DrupalHooks.actions : r.task = t
<1>1. /\ Row("drupal:settings", Ops(<<"settings">>)) \in DrupalHooks.actions
      /\ Row("drupal:dbbackup", InvokeAll(<<"drush:sqldump">>)) \in DrupalHooks.actions
      /\ Row("deploy:publishing", <<"drupal:dbbackup">>) \in DrupalHooks.prereqs
  BY DEF DrupalHooks
<1>2. \A r \in DrupalHooks.actions :
        /\ r.task \notin {"deploy", "deploy:rollback"}
        /\ r.task = "drupal:settings" => r.adds = Ops(<<"settings">>)
        /\ r.task = "drupal:dbbackup" => r.adds = InvokeAll(<<"drush:sqldump">>)
  BY RowParts DEF DrupalHooks
<1>3. \A r \in DrupalHooks.prereqs :
        /\ r.task # "deploy:install"
        /\ r.task = "deploy:publishing" => r.adds = <<"drupal:dbbackup">>
  BY RowParts DEF DrupalHooks
<1>4. \A t \in {"drupal:install", "drupal:settings", "drupal:revert_database",
      "drupal:dbbackup"} :
        \E r \in DrupalHooks.actions : r.task = t
  BY RowParts DEF DrupalHooks
<1>5. Added(DrupalHooks.actions, "drupal:settings") = Ops(<<"settings">>)
  BY <1>1, <1>2, AddedRow
<1>6. Added(DrupalHooks.actions, "drupal:dbbackup") = InvokeAll(<<"drush:sqldump">>)
  BY <1>1, <1>2, AddedRow
<1>7. Added(DrupalHooks.prereqs, "deploy:publishing") = <<"drupal:dbbackup">>
  BY <1>1, <1>3, AddedRow
<1> QED
  BY <1>2, <1>3, <1>4, <1>5, <1>6, <1>7, InShort

\* What capistrano/wordpress.rb adds for the order of steps.
LEMMA WordpressAdds ==
  /\ \A r \in WordpressHooks.actions : r.task \notin {"deploy", "deploy:rollback"}
  /\ \A r \in WordpressHooks.prereqs : r.task # "deploy:install"
  /\ In(Added(WordpressHooks.actions, "wordpress:settings"), Op("settings"))
  /\ In(Added(WordpressHooks.actions, "wordpress:dbbackup"), Invoke("wpcli:dbexport"))
  /\ In(Added(WordpressHooks.prereqs, "deploy:published"), "wordpress:dbbackup")
  /\ \A t \in {"wordpress:settings", "wordpress:dbbackup", "wordpress:revert_database"} :
       \E r \in WordpressHooks.actions : r.task = t
<1>1. /\ Row("wordpress:settings", Ops(<<"settings">>)) \in WordpressHooks.actions
      /\ Row("wordpress:dbbackup", InvokeAll(<<"wpcli:dbexport">>)) \in WordpressHooks.actions
      /\ Row("deploy:published", <<"wordpress:dbbackup">>) \in WordpressHooks.prereqs
  BY DEF WordpressHooks
<1>2. \A r \in WordpressHooks.actions :
        /\ r.task \notin {"deploy", "deploy:rollback"}
        /\ r.task = "wordpress:settings" => r.adds = Ops(<<"settings">>)
        /\ r.task = "wordpress:dbbackup" => r.adds = InvokeAll(<<"wpcli:dbexport">>)
  BY RowParts DEF WordpressHooks
<1>3. \A r \in WordpressHooks.prereqs :
        /\ r.task # "deploy:install"
        /\ r.task = "deploy:published" => r.adds = <<"wordpress:dbbackup">>
  BY RowParts DEF WordpressHooks
<1>4. \A t \in {"wordpress:settings", "wordpress:dbbackup", "wordpress:revert_database"} :
        \E r \in WordpressHooks.actions : r.task = t
  BY RowParts DEF WordpressHooks
<1>5. Added(WordpressHooks.actions, "wordpress:settings") = Ops(<<"settings">>)
  BY <1>1, <1>2, AddedRow
<1>6. Added(WordpressHooks.actions, "wordpress:dbbackup") = InvokeAll(<<"wpcli:dbexport">>)
  BY <1>1, <1>2, AddedRow
<1>7. Added(WordpressHooks.prereqs, "deploy:published") = <<"wordpress:dbbackup">>
  BY <1>1, <1>3, AddedRow
<1> QED
  BY <1>2, <1>3, <1>4, <1>5, <1>6, <1>7, InShort

\* The hooks that are added keep what the tables say, and complete it when they are
\* those of the platform.
LEMMA HooksCalls ==
  ASSUME OnceInv, CallsInv, AddHooks
  PROVE  CallsInv' /\ (Subject = "platform" => Loaded')
<1> DEFINE more == Hooks[Subject]
<1>1. /\ prereqs' = Enhance(prereqs, more.prereqs)
      /\ actions' = Enhance(actions, more.actions)
      /\ cmd' = cmd /\ flags' = flags /\ flags \in Flags
  BY DEF AddHooks, OnceInv, TypeInv
<1>2. /\ Subject \in {"platform", "build", "scm"}
      /\ \A r \in more.actions : FineAdd(cmd, flags, r)
      /\ \A r \in more.prereqs : NeedAdd(flags, r)
  BY HooksFine DEF AddHooks
<1>3. Subject = "platform" =>
        \/ flags.platform = "drupal" /\ more = DrupalHooks
        \/ flags.platform = "wordpress" /\ more = WordpressHooks
  BY <1>1 DEF Hooks, Flags
<1>4. /\ Subject = "build" => more = BuildHooks
      /\ Subject = "scm" => more = ScmHooks
  BY DEF Hooks
<1>5. /\ \A r \in BuildHooks.actions \cup ScmHooks.actions :
           r.task \in {"rsync:stage", "rsync:check", "rsync:create_release"}
      /\ BuildHooks.prereqs = {} /\ ScmHooks.prereqs = {}
  BY RowParts DEF BuildHooks, ScmHooks
<1> HIDE DEF more
<1>6. /\ \A r \in more.actions : r.task \notin {"deploy", "deploy:rollback"}
      /\ \A r \in more.prereqs : r.task # "deploy:install"
  BY <1>2, <1>3, <1>4, <1>5, DrupalAdds, WordpressAdds
<1>7. ASSUME NEW t
      PROVE  /\ \A x : Does(t, x)' <=> Does(t, x) \/ In(Added(more.actions, t), x)
             /\ Added(more.actions, t) = <<>> => Entry(actions', t) = Entry(actions, t)
  BY <1>1, <1>2, ActionsEntry DEF Does, OnceInv, TablesInv
<1>8. ASSUME NEW t
      PROVE  /\ \A x : Needs(t, x)' <=> Needs(t, x) \/ In(Added(more.prereqs, t), x)
             /\ Added(more.prereqs, t) = <<>> => Entry(prereqs', t) = Entry(prereqs, t)
  BY <1>1, <1>2, NeedsOfEntry DEF Needs, OnceInv, TablesInv
<1>9. /\ SettingsTask' = SettingsTask /\ RevertTask' = RevertTask
      /\ BackupTask' = BackupTask /\ DumpTask' = DumpTask
      /\ PlatformTasks(flags') = PlatformTasks(flags) /\ BackupStart' = BackupStart
  BY <1>1 DEF SettingsTask, RevertTask, BackupTask, DumpTask, BackupStart, OfPlatform
<1>10. DOMAIN actions' = DOMAIN actions \cup {r.task : r \in more.actions}
  BY <1>1 DEF Enhance
<1>11. Loaded => Loaded'
  BY <1>9, <1>10 DEF Loaded
<1>12. ASSUME Subject = "platform"
       PROVE  /\ Loaded' /\ PlatformTasks(flags) \subseteq DOMAIN actions'
              /\ \A t : t = SettingsTask => Does(t, Op("settings"))'
              /\ \A t, u : t = BackupTask /\ u = DumpTask => Does(t, Invoke(u))'
              /\ \A t, u : t = BackupStart /\ u = BackupTask => Needs(t, u)'
  <2>1. CASE flags.platform = "drupal"
    <3>1. more = DrupalHooks
      BY <1>3, <1>12, <2>1
    <3>2. PlatformTasks(flags) = {"drupal:install", "drupal:settings",
                                  "drupal:revert_database", "drupal:dbbackup"}
      BY <2>1 DEF PlatformTasks
    <3>3. PlatformTasks(flags) \subseteq DOMAIN actions'
      BY <3>1, <3>2, <1>10, DrupalAdds
    <3>4. Loaded'
      BY <3>2, <3>3, <1>9 DEF Loaded
    <3>5. /\ SettingsTask = "drupal:settings" /\ BackupTask = "drupal:dbbackup"
          /\ DumpTask = "drush:sqldump"
          /\ BackupStart = "deploy:publishing"
      BY <2>1 DEF SettingsTask, BackupTask, DumpTask, BackupStart, OfPlatform
    <3> QED
      BY <3>1, <3>3, <3>4, <3>5, <1>7, <1>8, DrupalAdds
  <2>2. CASE flags.platform = "wordpress"
    <3>1. more = WordpressHooks
      BY <1>3, <1>12, <2>2
    <3>2. PlatformTasks(flags) = {"wordpress:settings", "wordpress:dbbackup",
                                  "wordpress:revert_database"}
      BY <2>2 DEF PlatformTasks
    <3>3. PlatformTasks(flags) \subseteq DOMAIN actions'
      BY <3>1, <3>2, <1>10, WordpressAdds
    <3>4. Loaded'
      BY <3>2, <3>3, <1>9 DEF Loaded
    <3>5. /\ SettingsTask = "wordpress:settings" /\ BackupTask = "wordpress:dbbackup"
          /\ DumpTask = "wpcli:dbexport"
          /\ BackupStart = "deploy:published"
      BY <2>2 DEF SettingsTask, BackupTask, DumpTask, BackupStart, OfPlatform
    <3> QED
      BY <3>1, <3>3, <3>4, <3>5, <1>7, <1>8, WordpressAdds
  <2> QED
    BY <1>1, <2>1, <2>2 DEF Flags
<1>13. Loaded' /\ Subject # "platform" => Loaded
  <2>1. Subject # "platform" => \A r \in more.actions : r.task \notin PlatformTasks(flags)
    BY <1>2, <1>4, <1>5 DEF PlatformTasks
  <2> QED
    BY <2>1, <1>9, <1>10 DEF Loaded
<1>14. CallsInv'
  <2>1. (BaseTasks \subseteq DOMAIN actions)'
    BY <1>10 DEF CallsInv
  <2>2. Needs("deploy:starting", "web:load_platform")'
    BY <1>8 DEF CallsInv
  <2>3. /\ Calls("deploy:publishing", "deploy:symlink:release")'
        /\ Calls("deploy:symlink:release", "deploy:symlink:settings")'
    BY <1>7 DEF CallsInv, Calls
  <2>4. Calls("deploy:symlink:settings", SettingsTask)'
    BY <1>7, <1>9 DEF CallsInv, Calls, Does
  <2>5. /\ Does("web:load_platform", Extend("platform"))'
        /\ Does("drush:sqldump", Op("dump"))' /\ Does("wpcli:dbexport", Op("dump"))'
    BY <1>7 DEF CallsInv
  <2>6. \A t \in {"deploy", "deploy:rollback"} :
          /\ Guarded(Entry(actions', t), {Invoke("deploy:starting")}, LoadNeeds)
          /\ Guarded(Entry(actions', t), {Invoke("deploy:publishing")}, UpdateNeeds)
    <3>1. \A t \in {"deploy", "deploy:rollback"} : Added(more.actions, t) = <<>>
      BY <1>6, AddedNone
    <3> QED
      BY <3>1, <1>7 DEF CallsInv
  <2>7. /\ Needs("deploy:install", "deploy:starting")'
        /\ Needs("deploy:install", "deploy:publishing")'
    BY <1>8 DEF CallsInv
  <2>8. Guarded(InvokeAll(Entry(prereqs', "deploy:install")), {Invoke("deploy:starting")},
                LoadNeeds)
    <3>1. Added(more.prereqs, "deploy:install") = <<>>
      BY <1>6, AddedNone
    <3> QED
      BY <3>1, <1>8 DEF CallsInv
  <2>9. (Calls("deploy:rollback_release_path", RevertTask) => Loaded)'
    <3> SUFFICES ASSUME Subject # "platform", NEW u, u = RevertTask,
                        Does("deploy:rollback_release_path", Invoke(u))'
                 PROVE  Loaded'
      BY <1>9, <1>12 DEF Calls, Does
    <3>1. Added(more.actions, "deploy:rollback_release_path") = <<>>
      BY <1>2, <1>4, <1>5, AddedNone
    <3>2. Does("deploy:rollback_release_path", Invoke(u))
      BY <3>1, <1>7, InNone
    <3> QED
      BY <3>2, <1>11 DEF CallsInv, Calls
  <2>10. (Loaded =>
           /\ PlatformTasks(flags) \subseteq DOMAIN actions
           /\ Does(SettingsTask, Op("settings"))
           /\ Calls(BackupTask, DumpTask)
           /\ Needs(BackupStart, BackupTask))'
    <3>1. CASE Subject = "platform"
      BY <3>1, <1>1, <1>9, <1>12 DEF Calls, Does, Needs
    <3>2. ASSUME Subject # "platform", Loaded'
          PROVE  /\ PlatformTasks(flags') \subseteq DOMAIN actions'
                 /\ Does(SettingsTask, Op("settings"))'
                 /\ Calls(BackupTask, DumpTask)'
                 /\ Needs(BackupStart, BackupTask)'
      <4>1. Loaded
        BY <3>2, <1>13
      <4>2. PlatformTasks(flags') \subseteq DOMAIN actions'
        BY <4>1, <1>9, <1>10 DEF CallsInv
      <4>3. \A t : Does(t, Op("settings")) => Does(t, Op("settings"))'
        BY <1>7
      <4>4. Does(SettingsTask, Op("settings"))'
        BY <4>1, <4>3, <1>9 DEF CallsInv, Does
      <4>5. Calls(BackupTask, DumpTask)'
        BY <4>1, <1>7, <1>9 DEF CallsInv, Calls, Does
      <4>6. Needs(BackupStart, BackupTask)'
        BY <4>1, <1>1, <1>8, <1>9 DEF CallsInv, Needs
      <4> QED
        BY <4>2, <4>4, <4>5, <4>6
    <3> QED
      BY <3>1, <3>2
  <2> QED
    BY <2>1, <2>2, <2>3, <2>4, <2>5, <2>6, <2>7, <2>8, <2>9, <2>10 DEF CallsInv
<1> QED
  BY <1>12, <1>14

(***************************************************************************)
(* The guards.                                                             *)
(***************************************************************************)
\* What is guarded stays guarded when the first thing on the agenda, if it was a guard,
\* leaves another one behind.
LEMMA GuardKept ==
  ASSUME TypeInv, agenda # <<>>, NEW b \in Seq(Items), Replace(b), NEW G, NEW H, NEW N,
         Guarded(agenda, G, N), Guarded(b, H, N),
         (Head(agenda) \notin G /\ G \subseteq H) \/ \E y \in H : In(b, y)
  PROVE  Guarded(agenda', H, N)
<1> DEFINE a == agenda
           n == agenda'
<1>1. a \in Seq(Items) /\ n = b \o Tail(a) /\ a # <<>>
  BY DEF TypeInv, Replace
<1>2. n \in Seq(Items) /\ Spliced(a, b, n)
  BY <1>1, Splice
<1> HIDE DEF a, n
<1>3. /\ 1 \in DOMAIN a /\ Head(a) = a[1]
      /\ \A k \in DOMAIN n : \/ k \in DOMAIN b /\ n[k] = b[k]
                             \/ /\ k > Len(b) /\ k - Len(b) + 1 \in DOMAIN a
                                /\ n[k] = a[k - Len(b) + 1]
      /\ \A k \in DOMAIN b : k \in DOMAIN n /\ n[k] = b[k]
      /\ \A k \in DOMAIN a : k > 1 => /\ k + Len(b) - 1 \in DOMAIN n
                                      /\ n[k + Len(b) - 1] = a[k]
  BY <1>2 DEF Spliced
<1>4. /\ DOMAIN n \subseteq Nat /\ DOMAIN a \subseteq Nat /\ Len(b) \in Nat
      /\ \A k \in DOMAIN a : k >= 1
      /\ \A k \in DOMAIN b : k \in Nat /\ k <= Len(b)
  BY <1>1, <1>2
<1>5. SUFFICES ASSUME NEW j \in DOMAIN n, n[j] \in N
               PROVE  \E i \in DOMAIN n : i < j /\ n[i] \in H
  BY DEF Guarded, n
<1>6. CASE j \in DOMAIN b /\ n[j] = b[j]
  BY <1>3, <1>5, <1>6 DEF Guarded
<1>7. CASE j > Len(b) /\ j - Len(b) + 1 \in DOMAIN a /\ n[j] = a[j - Len(b) + 1]
  <2>1. CASE \E y \in H : In(b, y)
    <3>1. PICK i \in DOMAIN b : b[i] \in H
      BY <2>1 DEF In
    <3>2. i \in DOMAIN n /\ n[i] \in H /\ i < j
      BY <3>1, <1>3, <1>4, <1>7
    <3> QED
      BY <3>2
  <2>2. CASE Head(a) \notin G /\ G \subseteq H
    <3>1. PICK i \in DOMAIN a : i < j - Len(b) + 1 /\ a[i] \in G
      BY <1>5, <1>7 DEF Guarded, a
    <3>2. i > 1
      BY <3>1, <2>2, <1>3, <1>4
    <3>3. i + Len(b) - 1 \in DOMAIN n /\ n[i + Len(b) - 1] \in H
      BY <3>1, <3>2, <2>2, <1>3
    <3>4. i + Len(b) - 1 < j
      BY <3>1, <1>4
    <3> QED
      BY <3>3, <3>4
  <2> QED
    BY <2>1, <2>2 DEF a
<1> QED
  BY <1>3, <1>6, <1>7

\* Nothing guarded comes first.
LEMMA GuardFirst ==
  ASSUME TypeInv, agenda # <<>>, NEW G, NEW N, Guarded(agenda, G, N)
  PROVE  Head(agenda) \notin N
<1>1. 1 \in DOMAIN agenda /\ Head(agenda) = agenda[1] /\ \A i \in DOMAIN agenda : ~(i < 1)
  BY DEF TypeInv
<1> QED
  BY <1>1 DEF Guarded

\* Nothing is to be guarded among things that are not of N.
LEMMA GuardNone ==
  ASSUME NEW b, NEW H, NEW N, \A x : In(b, x) => x \notin N
  PROVE  Guarded(b, H, N)
  BY DEF Guarded, In

\* What comes with a task that is invoked is guarded when its prerequisites are, and a
\* guard is among them.
LEMMA GuardItems ==
  ASSUME NEW q \in Seq(Names), NEW t, NEW g, NEW H, NEW N, g \in H,
         In(q, g.what), g = Invoke(g.what), Guarded(InvokeAll(q), {g}, N)
  PROVE  /\ Guarded(InvokeAll(q) \o <<Act(t)>>, H, N)
         /\ In(InvokeAll(q) \o <<Act(t)>>, g)
<1> DEFINE p == InvokeAll(q)
           n == p \o <<Act(t)>>
<1>1. p \in Seq(Items)
  <2>1. p \in [1..Len(q) -> Items] /\ Len(q) \in Nat
    BY ItemParts DEF InvokeAll
  <2> QED
    BY <2>1
<1>2. \A i \in DOMAIN q : i \in DOMAIN p /\ p[i] = Invoke(q[i])
  BY DEF InvokeAll
<1> HIDE DEF p
<1>3. /\ DOMAIN n = 1..(Len(p) + 1) /\ Len(p) \in Nat /\ DOMAIN p = 1..Len(p)
      /\ \A i \in 1..Len(p) : n[i] = p[i]
  BY <1>1
<1> HIDE DEF n
<1>4. PICK k \in DOMAIN p : p[k] = g
  BY <1>2 DEF In
<1>5. k \in DOMAIN n /\ n[k] = g
  BY <1>3, <1>4
<1>6. ASSUME NEW j \in DOMAIN n, n[j] \in N
      PROVE  \E i \in DOMAIN n : i < j /\ n[i] \in H
  <2>1. CASE j \in DOMAIN p
    <3>1. PICK i \in DOMAIN p : i < j /\ p[i] = g
      BY <2>1, <1>3, <1>6 DEF Guarded, p
    <3> QED
      BY <3>1, <1>3
  <2>2. CASE j \notin DOMAIN p
    <3>1. k < j
      BY <2>2, <1>3, <1>4
    <3> QED
      BY <3>1, <1>5
  <2> QED
    BY <2>1, <2>2
<1> QED
  BY <1>5, <1>6 DEF Guarded, In, n, p

\* Two things on an agenda are the same when their parts are.
LEMMA ItemsApart ==
  /\ \A s, t : /\ (Invoke(s) = Invoke(t)) <=> (s = t)
               /\ (Act(s) = Act(t)) <=> (s = t)
               /\ (Op(s) = Op(t)) <=> (s = t)
               /\ (Extend(s) = Extend(t)) <=> (s = t)
  /\ \A s, t : /\ Invoke(s) # Act(t) /\ Invoke(s) # Op(t) /\ Invoke(s) # Extend(t)
               /\ Act(s) # Op(t) /\ Act(s) # Extend(t) /\ Op(s) # Extend(t)
  BY DEF Invoke, Act, Op, Extend

\* The steps that take the first thing from the agenda and put nothing in its place.
Drops == /\ Replace(<<>>) /\ agenda # <<>> /\ UNCHANGED <<cmd, flags, invoked>>
         /\ In(agenda, Head(agenda))

\* What a step may be.
LEMMA StepKinds ==
  ASSUME OnceInv, [Next]_vars
  PROVE  \/ UNCHANGED <<cmd, flags, prereqs, actions, invoked, agenda, log>>
         \/ /\ Drops /\ \E t : Head(agenda) = Invoke(t) /\ t \in invoked
            /\ UNCHANGED <<prereqs, actions, log>>
         \/ InvokeTask /\ Subject \notin invoked
         \/ RunActions
         \/ DoOp /\ Drops /\ Head(agenda) = Op(Subject) /\ UNCHANGED <<prereqs, actions>>
         \/ AddHooks /\ Drops /\ Head(agenda) = Extend(Subject) /\ log' = log
<1>1. agenda # <<>> => Head(agenda) \in Items /\ In(agenda, Head(agenda))
  BY DEF OnceInv, TypeInv, In
<1>2. ASSUME InvokeTask, Subject \in invoked
      PROVE  /\ Drops /\ \E t : Head(agenda) = Invoke(t) /\ t \in invoked
             /\ UNCHANGED <<prereqs, actions, log>>
  BY <1>1, <1>2, ItemParts DEF InvokeTask, Due, Drops, tables, Subject
<1>3. ASSUME DoOp
      PROVE  Drops /\ Head(agenda) = Op(Subject) /\ UNCHANGED <<prereqs, actions>>
  BY <1>1, <1>3, ItemParts DEF DoOp, Due, Drops, tables, Subject
<1>4. ASSUME AddHooks
      PROVE  Drops /\ Head(agenda) = Extend(Subject) /\ log' = log
  BY <1>1, <1>4, ItemParts DEF AddHooks, Due, Drops, Subject
<1> QED
  BY <1>2, <1>3, <1>4 DEF Next, vars, tables, InvokeUnknown, OpFails, Finish

\* What the platform's tasks and their callers wait for.
LoadTasks ==
  {"deploy:publishing", "deploy:published", "deploy:symlink:release",
   "deploy:symlink:settings", "drupal:settings", "wordpress:settings",
   "drupal:dbbackup", "wordpress:dbbackup", "drupal:install"}

\* They are called by one another, or by a command.
LEMMA LoadCallers ==
  \A c, f, t, x : MayInvoke(c, f, t, x) /\ x \in LoadTasks =>
                    t \in LoadTasks \cup {"deploy", "deploy:rollback", "deploy:install"}
  BY DEF MayInvoke, LoadTasks

\* The platform is loaded before its tasks are called.
LEMMA LoadKept ==
  ASSUME OnceInv, FamilyInv, CallsInv, LoadInv, Effect, [Next]_vars
  PROVE  LoadInv'
<1> SUFFICES ASSUME cmd \notin Late, ~Loaded'
             PROVE  Guarded(agenda', LoadGuards', LoadNeeds)
  BY DEF LoadInv, Effect
<1> USE ItemsApart
<1> DEFINE G == LoadGuards
           H == LoadGuards'
<1>1. ~Loaded /\ Guarded(agenda, G, LoadNeeds)
  BY DEF Effect, LoadInv
<1>2. /\ \A t : Invoke(t) \in G <=> t \in {"web:load_platform", "deploy:starting"} \ invoked
      /\ \A t : Act(t) \in G <=> t = "web:load_platform"
      /\ \A t : Op(t) \notin G
      /\ \A t : Extend(t) \in G <=> t = "platform"
  BY DEF LoadGuards, ToRun
<1>3. /\ \A t : Invoke(t) \in H <=> t \in {"web:load_platform", "deploy:starting"} \ invoked'
      /\ \A t : Act(t) \in H <=> t = "web:load_platform"
      /\ Extend("platform") \in H
  BY DEF LoadGuards, ToRun
<1>4. /\ \A t : Invoke(t) \in LoadNeeds <=> t \in LoadTasks
      /\ \A t : Act(t) \in LoadNeeds <=> t \in LoadTasks \cup {"deploy:install"}
      /\ \A t : Op(t) \notin LoadNeeds /\ Extend(t) \notin LoadNeeds
  BY DEF LoadNeeds, Either, LoadTasks
<1>5. invoked' = invoked => H = G
  BY DEF LoadGuards, ToRun
<1>6. TypeInv
  BY DEF OnceInv
<1> HIDE DEF G, H
<1>7. ASSUME UNCHANGED <<agenda, invoked>>
      PROVE  Guarded(agenda', H, LoadNeeds)
  BY <1>1, <1>5, <1>7
<1>8. ASSUME Drops, Head(agenda) \notin G
      PROVE  Guarded(agenda', H, LoadNeeds)
  <2>1. Guarded(<<>>, H, LoadNeeds) /\ <<>> \in Seq(Items)
    BY InNone, GuardNone
  <2> QED
    BY <2>1, <1>1, <1>5, <1>6, <1>8, GuardKept DEF Drops
<1>9. ASSUME InvokeTask, Subject \notin invoked
      PROVE  Guarded(agenda', H, LoadNeeds)
  <2>1. /\ agenda # <<>> /\ Replace(NewItems) /\ NewItems \in Seq(Items)
        /\ Head(agenda) = Invoke(Subject) /\ In(agenda, Invoke(Subject))
        /\ invoked' = invoked \cup {Subject} /\ Subject \in Names
        /\ In(NewItems, Act(Subject))
        /\ \A x : In(NewItems, x) => \/ x = Act(Subject)
                                     \/ x = Invoke(x.what) /\ MayNeed(flags, Subject, x.what)
    BY <1>9, FirstFacts
  <2>2. Subject \notin LoadTasks
    BY <2>1, <1>1, <1>4, <1>6, GuardFirst
  <2>3. Subject # "deploy:install" => Guarded(NewItems, H, LoadNeeds)
    <3>1. \A x : MayNeed(flags, Subject, x) /\ Subject # "deploy:install" => x \notin LoadTasks
      BY <2>2 DEF MayNeed, LoadTasks
    <3> QED
      BY <3>1, <2>1, <2>2, <1>4, GuardNone
  <2>4. CASE Subject = "deploy:starting"
    <3>1. "web:load_platform" \notin invoked'
      BY <2>1, <2>4, <1>9 DEF FamilyInv, Called, Opened
    <3>2. In(NewItems, Invoke("web:load_platform"))
      <4>1. In(Entry(prereqs, Subject), "web:load_platform")
        BY <2>4 DEF CallsInv, Needs
      <4>2. Entry(prereqs, Subject) \in Seq(Names)
        BY NeedsEntry DEF OnceInv
      <4> QED
        BY <4>1, <4>2, <2>1, InvokedItems DEF NewItems, In
    <3> QED
      BY <3>1, <3>2, <2>1, <2>3, <2>4, <1>1, <1>3, <1>6, GuardKept
  <2>5. CASE Subject = "web:load_platform"
    BY <2>1, <2>3, <2>5, <1>1, <1>3, <1>6, GuardKept
  <2>6. CASE Subject = "deploy:install"
    <3>1. "deploy:starting" \notin invoked'
      BY <2>1, <2>6, <1>9 DEF FamilyInv, Called, Opened, Ran
    <3>2. Guarded(NewItems, H, LoadNeeds) /\ In(NewItems, Invoke("deploy:starting"))
      <4>1. /\ In(Entry(prereqs, Subject), "deploy:starting")
            /\ Guarded(InvokeAll(Entry(prereqs, Subject)), {Invoke("deploy:starting")},
                LoadNeeds)
        BY <2>6 DEF CallsInv, Needs
      <4>2. Entry(prereqs, Subject) \in Seq(Names)
        BY NeedsEntry DEF OnceInv
      <4>3. Invoke("deploy:starting") \in H
        BY <3>1, <1>3
      <4> QED
        BY <4>1, <4>2, <4>3, ItemParts, GuardItems DEF NewItems
    <3> QED
      BY <3>1, <3>2, <2>1, <1>1, <1>3, <1>6, GuardKept
  <2>7. CASE Subject \notin {"deploy:starting", "web:load_platform", "deploy:install"}
    <3>1. Head(agenda) \notin G
      BY <2>1, <2>7, <1>2
    <3>2. G \subseteq H
      BY <2>1, <2>7 DEF G, H, LoadGuards, ToRun
    <3> QED
      BY <3>1, <3>2, <2>1, <2>3, <2>7, <1>1, <1>6, GuardKept
  <2> QED
    BY <2>4, <2>5, <2>6, <2>7
<1>10. ASSUME RunActions
       PROVE  Guarded(agenda', H, LoadNeeds)
  <2> DEFINE b == actions[Subject]
  <2>1. /\ agenda # <<>> /\ Replace(b) /\ b \in Seq(Items)
        /\ Head(agenda) = Act(Subject) /\ In(agenda, Act(Subject))
        /\ invoked' = invoked /\ Subject \in invoked /\ b = Entry(actions, Subject)
        /\ \A x : In(b, x) => FineItem(cmd, flags, Subject, x) /\ x \in Items
    BY <1>10, ActFacts DEF Entry
  <2> HIDE DEF b
  <2>2. Subject \notin LoadTasks \cup {"deploy:install"}
    BY <2>1, <1>1, <1>4, <1>6, GuardFirst
  <2>3. Subject \notin {"deploy", "deploy:rollback"} => Guarded(b, H, LoadNeeds)
    <3>1. Subject \notin {"deploy", "deploy:rollback"} =>
            \A x : MayInvoke(cmd, flags, Subject, x) => x \notin LoadTasks
      BY <2>2, LoadCallers
    <3>2. Subject \notin {"deploy", "deploy:rollback"} => \A x : In(b, x) => x \notin LoadNeeds
      BY <3>1, <2>1, <1>4, ItemParts DEF FineItem
    <3> QED
      BY <3>2, GuardNone
  <2>4. CASE Subject = "web:load_platform"
    <3>1. In(b, Extend("platform"))
      BY <2>1, <2>4 DEF CallsInv, Does
    <3> QED
      BY <3>1, <2>1, <2>3, <2>4, <1>1, <1>3, <1>6, GuardKept
  <2>5. CASE Subject \in {"deploy", "deploy:rollback"}
    <3>1. "deploy:starting" \notin invoked'
      BY <2>1, <2>5 DEF FamilyInv, Called, Opened, Ran
    <3>2. Guarded(b, {Invoke("deploy:starting")}, LoadNeeds)
      BY <2>1, <2>5 DEF CallsInv
    <3>3. Guarded(b, H, LoadNeeds)
      BY <3>1, <3>2, <1>3 DEF Guarded
    <3>4. Head(agenda) \notin G
      BY <2>1, <2>5, <1>2
    <3> QED
      BY <3>3, <3>4, <2>1, <1>1, <1>5, <1>6, GuardKept
  <2>6. CASE Subject \notin {"web:load_platform", "deploy", "deploy:rollback"}
    <3>1. Head(agenda) \notin G
      BY <2>1, <2>6, <1>2
    <3> QED
      BY <3>1, <2>1, <2>3, <2>6, <1>1, <1>5, <1>6, GuardKept
  <2> QED
    BY <2>4, <2>5, <2>6
<1>11. AddHooks /\ Head(agenda) = Extend(Subject) => Head(agenda) \notin G
  BY <1>2, HooksCalls
<1> QED
  BY <1>2, <1>7, <1>8, <1>9, <1>10, <1>11, StepKinds DEF H

\* The updates, and the tasks that only they or the end of a deploy call.
LEMMA UpdateCallers ==
  /\ \A c, f, t, x : MayInvoke(c, f, t, x) /\ x \in UpdateTasks =>
                       t \in UpdateTasks \cup {"deploy:published", "drush:sqlsync"}
  /\ \A c, f, t, x : MayInvoke(c, f, t, x) /\ x = "deploy:published" =>
                       t \in {"deploy", "deploy:rollback", "deploy:install"}
  /\ \A f, t, x : MayNeed(f, t, x) => x \notin UpdateTasks \cup {"deploy:published"}
  /\ \A c, f : \A s \in Updates : StepOwner(c, f, s) \in UpdateTasks
<1>1. \A c, f, t, x : MayInvoke(c, f, t, x) /\ x \in UpdateTasks =>
                        t \in UpdateTasks \cup {"deploy:published", "drush:sqlsync"}
  BY DEF MayInvoke, UpdateTasks
<1>2. \A c, f, t, x : MayInvoke(c, f, t, x) /\ x = "deploy:published" =>
                        t \in {"deploy", "deploy:rollback", "deploy:install"}
  BY DEF MayInvoke
<1>3. \A f, t, x : MayNeed(f, t, x) => x \notin UpdateTasks \cup {"deploy:published"}
  BY DEF MayNeed, UpdateTasks
<1>4. \A c, f : \A s \in Updates : StepOwner(c, f, s) \in UpdateTasks
  BY DEF StepOwner, Updates, UpdateTasks
<1> QED
  BY <1>1, <1>2, <1>3, <1>4

\* The tasks that lead to the settings.
SettingsPath == {"deploy:publishing", "deploy:symlink:release", "deploy:symlink:settings",
                 SettingsTask}

\* The settings are linked before the database is updated.
LEMMA SettingsKept ==
  ASSUME OnceInv, FamilyInv, CallsInv, SettingsInv, Effect, [Next]_vars
  PROVE  SettingsInv'
<1> USE ItemsApart
<1> DEFINE G == SettingsGuards
           H == SettingsGuards'
<1>0. SUFFICES ASSUME LinkCmd, ~In(log', "settings"), ~In(log, "settings")
               PROVE  Guarded(agenda', H, UpdateNeeds)
  <2>1. In(log, "settings") => In(log', "settings")
    <3>1. CASE log' = log
      BY <3>1
    <3>2. CASE DoOp
      <4>1. log' = Append(log, Subject) /\ Subject \in Names
        BY <3>2, ItemParts DEF DoOp, Due, Subject, OnceInv, TypeInv
      <4> QED
        BY <4>1, Logged DEF OnceInv, TypeInv
    <3> QED
      BY <3>1, <3>2, StepKinds, FirstFacts, ActFacts
  <2> QED
    BY <2>1 DEF SettingsInv, LinkCmd, Effect
<1>1. Guarded(agenda, G, UpdateNeeds) /\ SettingsTask' = SettingsTask
  BY <1>0 DEF SettingsInv, SettingsTask, OfPlatform, Effect
<1>2. /\ \A t : Invoke(t) \in G <=> t \in SettingsPath \ invoked
      /\ \A t : Act(t) \in G <=> t \in SettingsPath
      /\ \A t : Op(t) \in G <=> t = "settings"
      /\ \A t : Extend(t) \notin G
  BY DEF SettingsGuards, ToRun, SettingsPath
<1>3. /\ \A t : Invoke(t) \in H <=> t \in SettingsPath \ invoked'
      /\ \A t : Act(t) \in H <=> t \in SettingsPath
      /\ \A t : Op(t) \in H <=> t = "settings"
      /\ \A t : Extend(t) \notin H
  BY <1>1 DEF SettingsGuards, ToRun, SettingsPath
<1>4. /\ \A t : Invoke(t) \in UpdateNeeds <=> t \in UpdateTasks \cup {"deploy:published"}
      /\ \A t : Act(t) \in UpdateNeeds
                  <=> t \in UpdateTasks \cup {"deploy:published", "deploy:install"}
      /\ \A t : Op(t) \in UpdateNeeds <=> t \in Updates
      /\ \A t : Extend(t) \notin UpdateNeeds
  BY DEF UpdateNeeds, Either
<1>5. invoked' = invoked => H = G
  BY <1>1 DEF SettingsGuards, ToRun
<1>6. TypeInv
  BY DEF OnceInv
<1>7. /\ "deploy:publishing" \in SettingsPath
      /\ SettingsPath \cap (UpdateTasks \cup {"deploy:published", "deploy:install", "deploy",
                                              "deploy:rollback"}) = {}
  BY DEF SettingsPath, SettingsTask, OfPlatform, UpdateTasks
<1> HIDE DEF G, H
<1>8. ASSUME UNCHANGED <<agenda, invoked>>
      PROVE  Guarded(agenda', H, UpdateNeeds)
  BY <1>1, <1>5, <1>8
<1>9. ASSUME Drops, Head(agenda) \notin G
      PROVE  Guarded(agenda', H, UpdateNeeds)
  <2>1. Guarded(<<>>, H, UpdateNeeds) /\ <<>> \in Seq(Items)
    BY InNone, GuardNone
  <2> QED
    BY <2>1, <1>1, <1>5, <1>6, <1>9, GuardKept DEF Drops
<1>10. ASSUME InvokeTask, Subject \notin invoked
       PROVE  Guarded(agenda', H, UpdateNeeds)
  <2>1. /\ agenda # <<>> /\ Replace(NewItems) /\ NewItems \in Seq(Items)
        /\ Head(agenda) = Invoke(Subject) /\ In(agenda, Invoke(Subject))
        /\ invoked' = invoked \cup {Subject} /\ Subject \in Names
        /\ In(NewItems, Act(Subject))
        /\ \A x : In(NewItems, x) => \/ x = Act(Subject)
                                     \/ x = Invoke(x.what) /\ MayNeed(flags, Subject, x.what)
    BY <1>10, FirstFacts
  <2>2. Subject \notin UpdateTasks \cup {"deploy:published"}
    BY <2>1, <1>1, <1>4, <1>6, GuardFirst
  <2>3. Subject # "deploy:install" => Guarded(NewItems, H, UpdateNeeds)
    BY <2>1, <2>2, <1>4, UpdateCallers, GuardNone
  <2>4. CASE Subject \in SettingsPath
    <3>1. Act(Subject) \in H /\ Subject # "deploy:install"
      BY <2>4, <1>3, <1>7
    <3> QED
      BY <3>1, <2>1, <2>3, <1>1, <1>6, GuardKept
  <2>5. CASE Subject = "deploy:install"
    <3>1. "deploy:publishing" \notin invoked'
      BY <2>1, <2>5, <1>10 DEF FamilyInv, Called, Opened, Ran
    <3>2. Guarded(NewItems, H, UpdateNeeds) /\ In(NewItems, Invoke("deploy:publishing"))
      <4>1. In(Entry(prereqs, Subject), "deploy:publishing")
        BY <2>5 DEF CallsInv, Needs
      <4>2. /\ Entry(prereqs, Subject) \in Seq(Names)
            /\ \A i \in DOMAIN Entry(prereqs, Subject) :
                 MayNeed(flags, Subject, Entry(prereqs, Subject)[i])
        BY NeedsEntry DEF OnceInv
      <4>3. Invoke("deploy:publishing") \in H
        BY <3>1, <1>3, <1>7
      <4>4. Guarded(InvokeAll(Entry(prereqs, Subject)), {Invoke("deploy:publishing")},
                    UpdateNeeds)
        <5>1. \A i \in DOMAIN Entry(prereqs, Subject) :
                Invoke(Entry(prereqs, Subject)[i]) \notin UpdateNeeds
          BY <4>2, <1>4, UpdateCallers
        <5> QED
          BY <5>1 DEF Guarded, InvokeAll
      <4> QED
        BY <4>1, <4>2, <4>3, <4>4, ItemParts, GuardItems DEF NewItems
    <3> QED
      BY <3>1, <3>2, <2>1, <1>1, <1>3, <1>6, <1>7, GuardKept
  <2>6. CASE Subject \notin SettingsPath \cup {"deploy:install"}
    <3>1. Head(agenda) \notin G
      BY <2>1, <2>6, <1>2
    <3>2. G \subseteq H
      BY <2>1, <2>6, <1>1 DEF G, H, SettingsGuards, ToRun, SettingsPath
    <3> QED
      BY <3>1, <3>2, <2>1, <2>3, <2>6, <1>1, <1>6, GuardKept
  <2> QED
    BY <2>4, <2>5, <2>6
<1>11. ASSUME RunActions
       PROVE  Guarded(agenda', H, UpdateNeeds)
  <2> DEFINE b == actions[Subject]
  <2>1. /\ agenda # <<>> /\ Replace(b) /\ b \in Seq(Items)
        /\ Head(agenda) = Act(Subject) /\ In(agenda, Act(Subject))
        /\ invoked' = invoked /\ Subject \in invoked /\ b = Entry(actions, Subject)
        /\ Subject \in DOMAIN actions
        /\ \A x : In(b, x) => FineItem(cmd, flags, Subject, x) /\ x \in Items
        /\ \A x : x.do \in Steps /\ In(b, x) => Subject = Owner(cmd, flags, x)
    BY <1>11, ActFacts DEF Entry
  <2> HIDE DEF b
  <2>2. Subject \notin UpdateTasks \cup {"deploy:published", "deploy:install"}
    BY <2>1, <1>1, <1>4, <1>6, GuardFirst
  <2>3. Subject # "drush:sqlsync"
    BY <2>1, <1>0 DEF FamilyInv, Called, LinkCmd
  <2>4. Subject \notin {"deploy", "deploy:rollback"} => Guarded(b, H, UpdateNeeds)
    <3>1. SUFFICES ASSUME Subject \notin {"deploy", "deploy:rollback"}, NEW x, In(b, x)
                   PROVE  x \notin UpdateNeeds
      BY GuardNone
    <3>2. FineItem(cmd, flags, Subject, x) /\ x \in Items
      BY <3>1, <2>1
    <3>3. CASE x.do = "op"
      <4>1. Subject = StepOwner(cmd, flags, x.what)
        BY <3>1, <3>3, <2>1 DEF Owner, Steps
      <4>2. x.what \notin Updates
        BY <4>1, <2>2, UpdateCallers
      <4> QED
        BY <3>2, <3>3, <4>2, <1>4, ItemParts
    <3>4. CASE x.do = "invoke"
      <4>1. MayInvoke(cmd, flags, Subject, x.what)
        BY <3>2, <3>4 DEF FineItem
      <4>2. x.what \notin UpdateTasks \cup {"deploy:published"}
        BY <4>1, <3>1, <2>2, <2>3, UpdateCallers
      <4> QED
        BY <3>2, <3>4, <4>2, <1>4, ItemParts
    <3>5. CASE x.do \notin {"op", "invoke"}
      BY <3>2, <3>5, <1>4, ItemParts DEF FineItem
    <3> QED
      BY <3>3, <3>4, <3>5
  <2>5. CASE Subject \in SettingsPath
    <3>1. \E y \in H : In(b, y)
      <4>1. CASE Subject = "deploy:publishing"
        <5>1. In(b, Invoke("deploy:symlink:release"))
          BY <2>1, <4>1 DEF CallsInv, Calls, Does
        <5>2. "deploy:symlink:release" \notin invoked'
          BY <2>1, <4>1, <1>0 DEF FamilyInv, Called, Ran, LinkCmd
        <5> QED
          BY <5>1, <5>2, <1>3 DEF SettingsPath
      <4>2. CASE Subject = "deploy:symlink:release"
        <5>1. In(b, Invoke("deploy:symlink:settings"))
          BY <2>1, <4>2 DEF CallsInv, Calls, Does
        <5>2. "deploy:symlink:settings" \notin invoked'
          BY <2>1, <4>2, <1>0 DEF FamilyInv, Called, Ran, LinkCmd
        <5> QED
          BY <5>1, <5>2, <1>3 DEF SettingsPath
      <4>3. CASE Subject = "deploy:symlink:settings"
        <5>1. In(b, Invoke(SettingsTask))
          BY <2>1, <4>3 DEF CallsInv, Calls, Does
        <5>2. SettingsTask \notin invoked'
          BY <2>1, <4>3 DEF FamilyInv, Called, Ran
        <5> QED
          BY <5>1, <5>2, <1>3 DEF SettingsPath
      <4>4. CASE Subject = SettingsTask
        <5>1. SettingsTask \in PlatformTasks(flags)
          BY DEF SettingsTask, OfPlatform, PlatformTasks
        <5>2. Loaded
          BY <5>1, <4>4, <2>1 DEF Loaded
        <5>3. In(b, Op("settings"))
          BY <5>2, <2>1, <4>4 DEF CallsInv, Does
        <5> QED
          BY <5>3, <1>3
      <4> QED
        BY <2>5, <4>1, <4>2, <4>3, <4>4 DEF SettingsPath
    <3> QED
      BY <3>1, <2>1, <2>4, <2>5, <1>1, <1>6, <1>7, GuardKept
  <2>6. CASE Subject \in {"deploy", "deploy:rollback"}
    <3>1. "deploy:publishing" \notin invoked'
      BY <2>1, <2>6 DEF FamilyInv, Called, Opened, Ran
    <3>2. Guarded(b, {Invoke("deploy:publishing")}, UpdateNeeds)
      BY <2>1, <2>6 DEF CallsInv
    <3>3. Guarded(b, H, UpdateNeeds)
      BY <3>1, <3>2, <1>3, <1>7 DEF Guarded
    <3>4. Head(agenda) \notin G
      BY <2>1, <2>6, <1>2, <1>7
    <3> QED
      BY <3>3, <3>4, <2>1, <1>1, <1>5, <1>6, GuardKept
  <2>7. CASE Subject \notin SettingsPath \cup {"deploy", "deploy:rollback"}
    <3>1. Head(agenda) \notin G
      BY <2>1, <2>7, <1>2
    <3> QED
      BY <3>1, <2>1, <2>4, <2>7, <1>1, <1>5, <1>6, GuardKept
  <2> QED
    BY <2>5, <2>6, <2>7
<1>12. DoOp /\ Head(agenda) = Op(Subject) => Head(agenda) \notin G
  <2>1. DoOp /\ Head(agenda) = Op(Subject) =>
          log' = Append(log, Subject) /\ Subject \in Names
    BY ItemParts DEF DoOp, Due, Subject, OnceInv, TypeInv
  <2>2. DoOp /\ Head(agenda) = Op(Subject) => Subject # "settings"
    <3>1. ASSUME NEW q \in Seq(Names), NEW s \in Names
          PROVE  In(Append(q, s), s)
      BY Logged
    <3> QED
      BY <2>1, <3>1, <1>0 DEF OnceInv, TypeInv
  <2> QED
    BY <2>2, <1>2
<1> QED
  BY <1>2, <1>8, <1>9, <1>10, <1>11, <1>12, StepKinds DEF H

\* The tasks that wait for the backup, and who calls them.
LEMMA DumpCallers ==
  ASSUME flags \in Flags
  PROVE  /\ \A x \in DumpWaits : \A t : MayInvoke(cmd, flags, t, x) =>
              t \in DumpWaits \cup {BackupStart, "drush:sqlsync"}
         /\ \A t, x : MayNeed(flags, t, x) => x \notin DumpWaits
         /\ \A s \in DumpOps : StepOwner(cmd, flags, s) \in DumpWaits
         /\ {BackupTask, DumpTask} \cap (DumpWaits \cup {BackupStart}) = {}
         /\ BackupStart \in LoadTasks /\ BackupTask \in PlatformTasks(flags)
<1>1. CASE flags.platform = "drupal"
  <2>1. /\ DumpWaits = {"deploy:symlink:release", "deploy:symlink:settings",
                        "drupal:settings", "wordpress:settings"}
        /\ DumpOps = {"link", "settings"} /\ BackupStart = "deploy:publishing"
        /\ BackupTask = "drupal:dbbackup" /\ DumpTask = "drush:sqldump"
    BY <1>1 DEF DumpWaits, DumpOps, BackupStart, BackupTask, DumpTask, OfPlatform
  <2>2. \A x \in DumpWaits : \A t : MayInvoke(cmd, flags, t, x) =>
           t \in DumpWaits \cup {BackupStart, "drush:sqlsync"}
    BY <2>1 DEF MayInvoke
  <2>3. \A t, x : MayNeed(flags, t, x) => x \notin DumpWaits
    BY <2>1 DEF MayNeed
  <2>4. \A s \in DumpOps : StepOwner(cmd, flags, s) \in DumpWaits
    BY <2>1 DEF StepOwner, OfPlatform
  <2>5. BackupStart \in LoadTasks /\ BackupTask \in PlatformTasks(flags)
    BY <1>1, <2>1 DEF LoadTasks, PlatformTasks
  <2> QED
    BY <2>1, <2>2, <2>3, <2>4, <2>5
<1>2. CASE flags.platform = "wordpress"
  <2>1. /\ DumpWaits = UpdateTasks
        /\ DumpOps = Updates /\ BackupStart = "deploy:published"
        /\ BackupTask = "wordpress:dbbackup" /\ DumpTask = "wpcli:dbexport"
    BY <1>2 DEF DumpWaits, DumpOps, BackupStart, BackupTask, DumpTask, OfPlatform
  <2>2. BackupStart \in LoadTasks /\ BackupTask \in PlatformTasks(flags)
    BY <1>2, <2>1 DEF LoadTasks, PlatformTasks
  <2>3. {BackupTask, DumpTask} \cap (DumpWaits \cup {BackupStart}) = {}
    BY <2>1 DEF UpdateTasks
  <2> QED
    BY <2>1, <2>2, <2>3, UpdateCallers
<1> QED
  BY <1>1, <1>2 DEF Flags

\* The database is backed up before the link on Drupal, before an update on WordPress.
LEMMA BackupKept ==
  ASSUME OnceInv, FamilyInv, CallsInv, LoadInv, BackupInv, Effect, [Next]_vars
  PROVE  BackupInv'
<1> USE ItemsApart
<1> DEFINE G == DumpGuards
           H == DumpGuards'
           N == DumpNeeds
<1>0. SUFFICES ASSUME LinkCmd, ~In(log', "dump"), ~In(log, "dump")
               PROVE  Guarded(agenda', H, N)
  <2>1. In(log, "dump") => In(log', "dump")
    <3>1. CASE log' = log
      BY <3>1
    <3>2. CASE DoOp
      <4>1. log' = Append(log, Subject) /\ Subject \in Names
        BY <3>2, ItemParts DEF DoOp, Due, Subject, OnceInv, TypeInv
      <4> QED
        BY <4>1, Logged DEF OnceInv, TypeInv
    <3> QED
      BY <3>1, <3>2, StepKinds, FirstFacts, ActFacts
  <2>2. DumpNeeds' = DumpNeeds
    BY DEF DumpNeeds, DumpWaits, DumpOps, BackupStart, OfPlatform, Effect
  <2> QED
    BY <2>1, <2>2 DEF BackupInv, LinkCmd, Effect
<1>1. /\ Guarded(agenda, G, N) /\ BackupTask' = BackupTask /\ DumpTask' = DumpTask
      /\ flags \in Flags /\ TypeInv
  BY <1>0 DEF BackupInv, BackupTask, DumpTask, OfPlatform, Effect, OnceInv, TypeInv
<1>2. /\ \A t : Invoke(t) \in G <=> t \in {BackupTask, DumpTask} \ invoked
      /\ \A t : Act(t) \in G <=> t \in {BackupTask, DumpTask}
      /\ \A t : Op(t) \in G <=> t = "dump"
      /\ \A t : Extend(t) \notin G
  BY DEF DumpGuards, ToRun
<1>3. /\ \A t : Invoke(t) \in H <=> t \in {BackupTask, DumpTask} \ invoked'
      /\ \A t : Act(t) \in H <=> t \in {BackupTask, DumpTask}
      /\ \A t : Op(t) \in H <=> t = "dump"
      /\ \A t : Extend(t) \notin H
  BY <1>1 DEF DumpGuards, ToRun
<1>4. /\ \A t : Invoke(t) \in N <=> t \in DumpWaits
      /\ \A t : Act(t) \in N <=> t \in DumpWaits \cup {BackupStart}
      /\ \A t : Op(t) \in N <=> t \in DumpOps
      /\ \A t : Extend(t) \notin N
  BY DEF DumpNeeds, Either
<1>5. invoked' = invoked => H = G
  BY <1>1 DEF DumpGuards, ToRun
<1> HIDE DEF G, H, N
<1>6. ASSUME UNCHANGED <<agenda, invoked>>
      PROVE  Guarded(agenda', H, N)
  BY <1>1, <1>5, <1>6
<1>7. ASSUME Drops, Head(agenda) \notin G
      PROVE  Guarded(agenda', H, N)
  <2>1. Guarded(<<>>, H, N) /\ <<>> \in Seq(Items)
    BY InNone, GuardNone
  <2> QED
    BY <2>1, <1>1, <1>5, <1>7, GuardKept DEF Drops
<1>8. ASSUME InvokeTask, Subject \notin invoked
      PROVE  Guarded(agenda', H, N)
  <2>1. /\ agenda # <<>> /\ Replace(NewItems) /\ NewItems \in Seq(Items)
        /\ Head(agenda) = Invoke(Subject) /\ In(agenda, Invoke(Subject))
        /\ invoked' = invoked \cup {Subject} /\ Subject \in Names
        /\ In(NewItems, Act(Subject))
        /\ \A x : In(NewItems, x) => \/ x = Act(Subject)
                                     \/ x = Invoke(x.what) /\ MayNeed(flags, Subject, x.what)
    BY <1>8, FirstFacts
  <2>2. Subject \notin DumpWaits
    BY <2>1, <1>1, <1>4, GuardFirst
  <2>3. Subject # BackupStart => Guarded(NewItems, H, N)
    BY <2>1, <2>2, <1>1, <1>4, DumpCallers, GuardNone
  <2>4. CASE Subject \in {BackupTask, DumpTask}
    <3>1. Act(Subject) \in H /\ Subject # BackupStart
      BY <2>4, <1>1, <1>3, DumpCallers
    <3> QED
      BY <3>1, <2>1, <2>3, <1>1, GuardKept
  <2>5. CASE Subject = BackupStart
    <3>1. Loaded
      <4>1. Invoke(Subject) \in LoadNeeds
        BY <2>5, <1>1, DumpCallers DEF LoadNeeds, Either, LoadTasks
      <4> QED
        BY <4>1, <2>1, <1>0, <1>1, GuardFirst DEF LoadInv, LinkCmd, Late, Unloaded
    <3>2. BackupTask \notin invoked'
      <4>1. BackupTask \notin invoked
        BY <2>5, <1>8 DEF FamilyInv, Called, BackupTask, BackupStart, OfPlatform
      <4>2. BackupTask # Subject
        BY <2>5, <1>1, DumpCallers
      <4> QED
        BY <4>1, <4>2, <2>1
    <3>3. Guarded(NewItems, H, N) /\ In(NewItems, Invoke(BackupTask))
      <4>1. In(Entry(prereqs, Subject), BackupTask)
        BY <3>1, <2>5 DEF CallsInv, Needs
      <4>2. /\ Entry(prereqs, Subject) \in Seq(Names)
            /\ \A i \in DOMAIN Entry(prereqs, Subject) :
                 MayNeed(flags, Subject, Entry(prereqs, Subject)[i])
        BY NeedsEntry DEF OnceInv
      <4>3. Invoke(BackupTask) \in H
        BY <3>2, <1>3
      <4>4. Guarded(InvokeAll(Entry(prereqs, Subject)), {Invoke(BackupTask)}, N)
        <5>1. \A i \in DOMAIN Entry(prereqs, Subject) :
                Invoke(Entry(prereqs, Subject)[i]) \notin N
          BY <4>2, <1>1, <1>4, DumpCallers
        <5> QED
          BY <5>1 DEF Guarded, InvokeAll
      <4> QED
        BY <4>1, <4>2, <4>3, <4>4, ItemParts, GuardItems DEF NewItems
    <3> QED
      BY <3>2, <3>3, <2>1, <1>1, <1>3, GuardKept
  <2>6. CASE Subject \notin {BackupTask, DumpTask, BackupStart}
    <3>1. Head(agenda) \notin G
      BY <2>1, <2>6, <1>2
    <3>2. G \subseteq H
      BY <2>1, <2>6, <1>1 DEF G, H, DumpGuards, ToRun
    <3> QED
      BY <3>1, <3>2, <2>1, <2>3, <2>6, <1>1, GuardKept
  <2> QED
    BY <2>4, <2>5, <2>6
<1>9. ASSUME RunActions
      PROVE  Guarded(agenda', H, N)
  <2> DEFINE b == actions[Subject]
  <2>1. /\ agenda # <<>> /\ Replace(b) /\ b \in Seq(Items)
        /\ Head(agenda) = Act(Subject) /\ In(agenda, Act(Subject))
        /\ invoked' = invoked /\ Subject \in invoked /\ b = Entry(actions, Subject)
        /\ Subject \in DOMAIN actions
        /\ \A x : In(b, x) => FineItem(cmd, flags, Subject, x) /\ x \in Items
        /\ \A x : x.do \in Steps /\ In(b, x) => Subject = Owner(cmd, flags, x)
    BY <1>9, ActFacts DEF Entry
  <2> HIDE DEF b
  <2>2. Subject \notin DumpWaits \cup {BackupStart}
    BY <2>1, <1>1, <1>4, GuardFirst
  <2>3. Subject # "drush:sqlsync"
    BY <2>1, <1>0 DEF FamilyInv, Called, LinkCmd
  <2>4. Guarded(b, H, N)
    <3>1. SUFFICES ASSUME NEW x, In(b, x)
                   PROVE  x \notin N
      BY GuardNone
    <3>2. FineItem(cmd, flags, Subject, x) /\ x \in Items
      BY <3>1, <2>1
    <3>3. CASE x.do = "op"
      <4>1. Subject = StepOwner(cmd, flags, x.what)
        BY <3>1, <3>3, <2>1 DEF Owner, Steps
      <4>2. x.what \notin DumpOps
        BY <4>1, <2>2, <1>1, DumpCallers
      <4> QED
        BY <3>2, <3>3, <4>2, <1>4, ItemParts
    <3>4. CASE x.do = "invoke"
      <4>1. MayInvoke(cmd, flags, Subject, x.what)
        BY <3>2, <3>4 DEF FineItem
      <4>2. x.what \notin DumpWaits
        BY <4>1, <2>2, <2>3, <1>1, DumpCallers
      <4> QED
        BY <3>2, <3>4, <4>2, <1>4, ItemParts
    <3>5. CASE x.do \notin {"op", "invoke"}
      BY <3>2, <3>5, <1>4, ItemParts DEF FineItem
    <3> QED
      BY <3>3, <3>4, <3>5
  <2>5. CASE Subject = BackupTask
    <3>1. Loaded
      BY <2>1, <2>5, <1>1, DumpCallers DEF Loaded
    <3>2. In(b, Invoke(DumpTask))
      BY <3>1, <2>1, <2>5 DEF CallsInv, Calls, Does
    <3>3. DumpTask \notin invoked'
      BY <2>1, <2>5, <1>0 DEF FamilyInv, Called, Ran
    <3> QED
      BY <3>2, <3>3, <2>1, <2>4, <1>1, <1>3, GuardKept
  <2>6. CASE Subject = DumpTask
    <3>1. In(b, Op("dump"))
      BY <2>1, <2>6 DEF CallsInv, Does, DumpTask, OfPlatform
    <3> QED
      BY <3>1, <2>1, <2>4, <1>1, <1>3, GuardKept
  <2>7. CASE Subject \notin {BackupTask, DumpTask}
    <3>1. Head(agenda) \notin G
      BY <2>1, <2>7, <1>2
    <3> QED
      BY <3>1, <2>1, <2>4, <1>1, <1>5, GuardKept
  <2> QED
    BY <2>5, <2>6, <2>7
<1>10. DoOp /\ Head(agenda) = Op(Subject) => Head(agenda) \notin G
  <2>1. DoOp /\ Head(agenda) = Op(Subject) =>
          log' = Append(log, Subject) /\ Subject \in Names
    BY ItemParts DEF DoOp, Due, Subject, OnceInv, TypeInv
  <2>2. DoOp /\ Head(agenda) = Op(Subject) => Subject # "dump"
    <3>1. ASSUME NEW q \in Seq(Names), NEW s \in Names
          PROVE  In(Append(q, s), s)
      BY Logged
    <3> QED
      BY <2>1, <3>1, <1>0 DEF OnceInv, TypeInv
  <2> QED
    BY <2>2, <1>2
<1> QED
  BY <1>2, <1>6, <1>7, <1>8, <1>9, <1>10, StepKinds DEF H

\* The tables keep what they say: only the hooks change them.
LEMMA CallsKept == ASSUME OnceInv, CallsInv, Effect, [Next]_vars PROVE CallsInv'
<1>1. CASE AddHooks
  BY <1>1, HooksCalls
<1>2. CASE UNCHANGED <<prereqs, actions, flags>>
  <2>1. /\ SettingsTask' = SettingsTask /\ RevertTask' = RevertTask
        /\ BackupTask' = BackupTask /\ DumpTask' = DumpTask /\ BackupStart' = BackupStart
        /\ PlatformTasks(flags)' = PlatformTasks(flags) /\ Loaded' = Loaded
    BY <1>2 DEF SettingsTask, RevertTask, BackupTask, DumpTask, BackupStart, OfPlatform, Loaded
  <2> QED
    BY <1>2, <2>1 DEF CallsInv, Calls, Does, Needs
<1> QED
  BY <1>1, <1>2, StepKinds, FirstFacts, ActFacts DEF Effect

\* A command that starts behind the loading of the platform comes to nothing else.
LEMMA LateKept == ASSUME OnceInv, LateInv, [Next]_vars PROVE LateInv'
<1>1. UNCHANGED <<cmd, flags>>
  BY StepEffect DEF Effect
<1> SUFFICES ASSUME cmd \in Late
             PROVE  LateInv'
  BY <1>1 DEF LateInv
<1>2. /\ \A x : In(agenda, x) => x.what \in LateThings
      /\ \A s : In(log, s) => s \in LateThings
      /\ \A t \in DOMAIN actions : t \in LateThings => t \in LateTasks
      /\ \A t \in LateTasks :
           /\ \A x : ~In(Entry(prereqs, t), x)
           /\ \A x : In(Entry(actions, t), x) => x.what \in LateThings
  BY DEF LateInv
<1>3. ASSUME UNCHANGED <<prereqs, actions>>,
             \A x : In(agenda', x) => x.what \in LateThings,
             \A s : In(log', s) => s \in LateThings
      PROVE  LateInv'
  BY <1>2, <1>3 DEF LateInv
<1>4. ASSUME Drops, UNCHANGED <<prereqs, actions>>, \A s : In(log', s) => s \in LateThings
      PROVE  LateInv'
  <2>1. \A x : In(agenda', x) => In(agenda, x)
    BY <1>4, Shorter DEF OnceInv, Drops
  <2> QED
    BY <1>2, <1>3, <1>4, <2>1
<1>5. ASSUME InvokeTask, Subject \notin invoked
      PROVE  LateInv'
  <2>1. Subject \in LateTasks
    <3>1. In(agenda, Invoke(Subject)) /\ Subject \in DOMAIN actions
      BY <1>5, FirstFacts
    <3> QED
      BY <3>1, <1>2, ItemParts
  <2>2. \A x : In(NewItems, x) => x = Act(Subject)
    <3>1. Entry(prereqs, Subject) \in Seq(Names)
      BY NeedsEntry DEF OnceInv
    <3>2. DOMAIN Entry(prereqs, Subject) = {}
      BY <2>1, <1>2 DEF In
    <3>3. Subject \in Names
      BY <1>5, FirstFacts
    <3>4. \A x : In(InvokeAll(Entry(prereqs, Subject)) \o <<Act(Subject)>>, x) =>
                  \/ x = Act(Subject)
                  \/ \E i \in DOMAIN Entry(prereqs, Subject) :
                       x = Invoke(Entry(prereqs, Subject)[i])
      BY <3>1, <3>3, InvokedItems
    <3> QED
      BY <3>2, <3>4 DEF NewItems
  <2>3. \A x : In(agenda', x) => In(agenda, x) \/ x = Act(Subject)
    BY <1>5, <2>2, FirstFacts
  <2>4. Act(Subject).what \in LateThings
    BY <2>1, ItemParts DEF LateThings
  <2>5. UNCHANGED <<prereqs, actions, log>>
    BY <1>5, FirstFacts
  <2>6. \A x : In(agenda', x) => x.what \in LateThings
    BY <2>3, <2>4, <1>2
  <2> QED
    BY <2>5, <2>6, <1>2, <1>3
<1>6. ASSUME RunActions
      PROVE  LateInv'
  <2>1. Subject \in LateTasks
    <3>1. In(agenda, Act(Subject)) /\ Subject \in DOMAIN actions
      BY <1>6, ActFacts
    <3> QED
      BY <3>1, <1>2, ItemParts
  <2>2. \A x : In(agenda', x) => In(agenda, x) \/ In(Entry(actions, Subject), x)
    BY <1>6, ActFacts DEF Entry
  <2>3. UNCHANGED <<prereqs, actions, log>>
    BY <1>6, ActFacts
  <2>4. \A x : In(agenda', x) => x.what \in LateThings
    BY <2>1, <2>2, <1>2
  <2> QED
    BY <2>3, <2>4, <1>2, <1>3
<1>7. ASSUME DoOp, Drops, Head(agenda) = Op(Subject), UNCHANGED <<prereqs, actions>>
      PROVE  LateInv'
  <2>1. Subject \in LateThings
    <3>1. In(agenda, Op(Subject))
      BY <1>7 DEF Drops
    <3> QED
      BY <3>1, <1>2, ItemParts
  <2>2. /\ log' = Append(log, Subject) /\ log \in Seq(Names) /\ Subject \in Names
    BY <1>7, ItemParts DEF DoOp, Drops, OnceInv, TypeInv, In
  <2>3. \A s : In(log', s) => In(log, s) \/ s = Subject
    BY <2>2, Logged
  <2>4. \A s : In(log', s) => s \in LateThings
    BY <2>1, <2>3, <1>2
  <2> QED
    BY <2>4, <1>4, <1>7
<1>8. ~AddHooks
  <2>1. AddHooks => Due("extend")
    BY DEF AddHooks
  <2>2. AddHooks => Subject \in {"platform", "build", "scm"} /\ In(agenda, Extend(Subject))
    BY <2>1, HooksFine
  <2>3. AddHooks => Subject \in LateThings
    BY <2>2, <1>2, ItemParts
  <2> QED
    BY <2>2, <2>3 DEF LateThings, LateTasks, Late, Unloaded
<1>9. CASE UNCHANGED <<prereqs, actions, agenda, log>>
  BY <1>9, <1>2, <1>3
<1> QED
  BY <1>2, <1>4, <1>5, <1>6, <1>7, <1>8, <1>9, StepKinds

\* A thing that is alone on the agenda is guarded when it needs no guard.
LEMMA GuardAlone ==
  ASSUME NEW x, NEW H, NEW N, x \notin N
  PROVE  Guarded(<<x>>, H, N)
<1>1. \A y : In(<<x>>, y) => y = x
  BY DEF In
<1> QED
  BY <1>1, GuardNone

\* A command that starts is the only task on the agenda, and waits for nothing.
LEMMA InitComes == Init => FamilyInv /\ LoadInv /\ SettingsInv /\ BackupInv /\ OrderInv
<1> SUFFICES ASSUME Init
             PROVE  FamilyInv /\ LoadInv /\ SettingsInv /\ BackupInv /\ OrderInv
  OBVIOUS
<1>1. /\ cmd \in BaseTasks /\ flags \in Flags /\ invoked = {} /\ log = <<>>
      /\ agenda = <<Invoke(cmd)>>
  BY CommandAssumption, FlagAssumption, CommandsDefined DEF Init
<1>2. \A t : Called(t) => t = cmd
  <2>1. \A y : In(<<Invoke(cmd)>>, y) => y = Invoke(cmd)
    BY DEF In
  <2> QED
    BY <1>1, <2>1, ItemsApart DEF Called
<1>3. FamilyInv
  <2>1. /\ ~Called("wordpress:install")
        /\ ~Called("drupal:dbbackup") /\ ~Called("wordpress:dbbackup")
    BY <1>1, <1>2 DEF BaseTasks
  <2>2. ~Called(SettingsTask) /\ ~Called(RevertTask)
    BY <1>1, <1>2 DEF BaseTasks, SettingsTask, RevertTask, OfPlatform
  <2>3. LinkCmd => ~Called(DumpTask)
    BY <1>2 DEF LinkCmd, DumpTask, OfPlatform
  <2> QED
    BY <1>1, <1>2, <2>1, <2>2, <2>3 DEF FamilyInv
<1>4. LoadInv
  <2>1. cmd \notin Late => cmd \notin LoadTasks
    BY <1>1 DEF BaseTasks, LoadTasks, Late, Unloaded
  <2>2. cmd \notin Late => Invoke(cmd) \notin LoadNeeds
    BY <2>1, ItemsApart DEF LoadNeeds, Either, LoadTasks
  <2> QED
    BY <1>1, <2>2, GuardAlone DEF LoadInv
<1>5. SettingsInv
  <2>1. LinkCmd => Invoke(cmd) \notin UpdateNeeds
    BY ItemsApart DEF LinkCmd, UpdateNeeds, Either, UpdateTasks
  <2> QED
    BY <1>1, <2>1, GuardAlone DEF SettingsInv
<1>6. BackupInv
  <2>1. LinkCmd => cmd \notin DumpWaits
    BY DEF LinkCmd, DumpWaits, UpdateTasks
  <2>2. LinkCmd => Invoke(cmd) \notin DumpNeeds
    BY <2>1, ItemsApart DEF DumpNeeds, Either
  <2> QED
    BY <1>1, <2>2, GuardAlone DEF BackupInv
<1>7. OrderInv
  <2>1. \A x : ~In(log, x) /\ Positions(x) = {}
    BY <1>1 DEF In, Positions
  <2> QED
    BY <2>1 DEF OrderInv, Before
<1> QED
  BY <1>3, <1>4, <1>5, <1>6, <1>7

\* A step keeps its place before another when it was done before the other is.
LEMMA BeforeGrows ==
  ASSUME NEW x \in Names, log \in Seq(Names), log' = Append(log, x),
         NEW s, NEW t, Before(s, t), t = x => In(log, s)
  PROVE  Before(s, t)'
<1> DEFINE n == log'
<1>1. /\ DOMAIN n = 1..(Len(log) + 1) /\ n[Len(log) + 1] = x
      /\ \A i \in 1..Len(log) : n[i] = log[i]
      /\ DOMAIN log = 1..Len(log) /\ Len(log) \in Nat
  OBVIOUS
<1> HIDE DEF n
<1>2. ASSUME NEW i \in DOMAIN n, n[i] = t
      PROVE  \E j \in DOMAIN n : n[j] = s /\ j < i
  <2>1. CASE i \in DOMAIN log
    <3>1. PICK j \in DOMAIN log : log[j] = s /\ j < i
      BY <1>1, <1>2, <2>1 DEF Before, Positions
    <3> QED
      BY <1>1, <3>1
  <2>2. CASE i = Len(log) + 1
    <3>1. PICK j \in DOMAIN log : log[j] = s
      BY <1>1, <1>2, <2>2 DEF In
    <3> QED
      BY <1>1, <2>2, <3>1
  <2> QED
    BY <1>1, <2>1, <2>2
<1> QED
  BY <1>2 DEF Before, Positions, n

\* The steps come in their order.
LEMMA OrderKept ==
  ASSUME OnceInv, FamilyInv, SettingsInv, BackupInv, OrderInv, Effect, [Next]_vars
  PROVE  OrderInv'
<1>1. UNCHANGED <<cmd, flags>>
  BY DEF Effect
<1>2. CASE log' = log
  BY <1>1, <1>2 DEF OrderInv, LinkCmd, Before, Positions, In
<1>3. CASE DoOp /\ Head(agenda) = Op(Subject)
  <2>1. /\ log' = Append(log, Subject) /\ agenda # <<>> /\ Subject \in Names
        /\ log \in Seq(Names) /\ TypeInv /\ flags \in Flags
    BY <1>3, ItemParts DEF DoOp, Due, Subject, OnceInv, TypeInv
  <2>2. \A y : In(log', y) <=> In(log, y) \/ y = Subject
    BY <2>1, Logged
  <2>3. Subject = "link" => LinkCmd \/ cmd \in Unloaded
    <3>1. Subject = "link" => In(agenda, Op("link")) /\ Op("link") \in Items
      BY <1>3, <2>1, ItemParts DEF In, TypeInv
    <3>2. Owner(cmd, flags, Op("link")) = "deploy:symlink:release" /\ Op("link").do \in Steps
      BY ItemParts DEF Owner, StepOwner, Steps
    <3>3. Subject = "link" => Ran("deploy:symlink:release")
      BY <3>1, <3>2 DEF OnceInv, StepsInv
    <3>4. Subject = "link" => Opened \/ cmd \in Unloaded
      BY <3>3 DEF FamilyInv, Ran, Called, Unloaded
    <3> QED
      BY <3>4 DEF Opened, LinkCmd
  <2>4. LinkCmd /\ Subject \in Updates => In(log, "settings")
    <3>1. Subject \in Updates => Head(agenda) \in UpdateNeeds
      BY <1>3 DEF UpdateNeeds
    <3> QED
      BY <2>1, <3>1, GuardFirst DEF SettingsInv
  <2>5. LinkCmd /\ Subject \in DumpOps => In(log, "dump")
    <3>1. Subject \in DumpOps => Head(agenda) \in DumpNeeds
      BY <1>3 DEF DumpNeeds
    <3> QED
      BY <2>1, <3>1, GuardFirst DEF BackupInv
  <2>6. flags.platform = "drupal" => DumpOps = {"link", "settings"}
    BY DEF DumpOps
  <2>7. flags.platform # "drupal" => DumpOps = Updates
    BY DEF DumpOps
  <2>8. LinkCmd /\ Subject \in Updates => In(log, "dump")
    BY <2>4, <2>5, <2>7 DEF OrderInv
  <2>9. LinkCmd => \A s \in Updates : Before("dump", s)' /\ Before("settings", s)'
    BY <2>1, <2>4, <2>8, BeforeGrows DEF OrderInv
  <2>10. LinkCmd /\ flags.platform = "drupal" => Before("dump", "link")'
    BY <2>1, <2>5, <2>6, BeforeGrows DEF OrderInv
  <2>11. LinkCmd /\ flags.platform = "drupal" => (In(log', "settings") => In(log', "dump"))
    BY <2>2, <2>5, <2>6 DEF OrderInv
  <2>12. In(log', "link") => LinkCmd \/ cmd \in Unloaded
    BY <2>2, <2>3 DEF OrderInv
  <2> QED
    BY <1>1, <2>9, <2>10, <2>11, <2>12 DEF OrderInv, LinkCmd, Updates
<1> QED
  BY <1>2, <1>3, StepKinds, FirstFacts, ActFacts

\* Every behaviour keeps it all.
THEOREM ComesHolds == Spec => [](ComesInv /\ OrderInv)
<1>1. Init => OnceInv /\ ComesInv /\ OrderInv
  BY InitOnce, InitCalls, InitComes DEF ComesInv
<1>2. OnceInv /\ ComesInv /\ OrderInv /\ [Next]_vars => (OnceInv /\ ComesInv /\ OrderInv)'
  BY NextOnce, StepEffect, FamilyKept, CallsKept, LateKept, LoadKept, SettingsKept,
     BackupKept, OrderKept DEF ComesInv
<1> QED
  BY <1>1, <1>2, PTL DEF Spec

\* Whatever the command, a link in the log means that every update comes behind the
\* backup and the settings, and on Drupal the link behind the backup, unless the command
\* starts at the publishing or at the links; such a command comes to no update.
THEOREM UpdatesLastSafe == Spec => []UpdatesComeLast
<1>1. ASSUME OrderInv, LinkCmd
      PROVE  UpdatesComeLast
  BY <1>1 DEF OrderInv, UpdatesComeLast, Updates
<1>2. ASSUME LateInv, cmd \in Unloaded
      PROVE  UpdatesComeLast
  <2>1. \A s : In(log, s) => s \in LateThings
    BY <1>2 DEF LateInv, Late
  <2>2. \A s \in {"updatedb", "features", "config", "wpcfm"} : Positions(s) = {}
    BY <2>1 DEF Positions, In, LateThings, LateTasks, Late, Unloaded
  <2> QED
    BY <1>2, <2>2 DEF UpdatesComeLast, Before
<1>3. OrderInv /\ ComesInv => UpdatesComeLast
  <2>1. "link" \in Range(log) => In(log, "link")
    BY DEF In, Range
  <2>2. OrderInv /\ "link" \in Range(log) => LinkCmd \/ cmd \in Unloaded
    BY <2>1 DEF OrderInv
  <2>3. "link" \notin Range(log) => UpdatesComeLast
    BY DEF UpdatesComeLast
  <2> QED
    BY <1>1, <1>2, <2>2, <2>3 DEF ComesInv
<1> QED
  BY <1>3, ComesHolds, PTL

(***************************************************************************)
(* Every task is known.                                                    *)
(***************************************************************************)
\* The tasks of the platform that are called are defined, unless the command starts
\* behind what loads it.
LEMMA PlatformKnown ==
  ASSUME OnceInv, ComesInv, agenda # <<>>, NEW t \in PlatformTasks(flags),
         Head(agenda) = Invoke(t), cmd \notin Late
  PROVE  t \in DOMAIN actions
<1>1. TypeInv /\ flags \in Flags /\ In(agenda, Invoke(t))
  BY DEF OnceInv, TypeInv, In
<1>2. t \in LoadTasks \/ t = RevertTask
  BY DEF PlatformTasks, LoadTasks, RevertTask, OfPlatform
<1>3. CASE t \in LoadTasks
  <2>1. Invoke(t) \in LoadNeeds
    BY <1>3 DEF LoadNeeds, Either, LoadTasks
  <2>2. Loaded
    BY <1>1, <2>1, GuardFirst DEF ComesInv, LoadInv
  <2> QED
    BY <2>2 DEF ComesInv, CallsInv
<1>4. CASE t = RevertTask
  BY <1>1, <1>4 DEF ComesInv, FamilyInv, CallsInv, Called
<1> QED
  BY <1>2, <1>3, <1>4

\* A command that comes to the settings starts at the publishing or at the links, or
\* opens a deploy.
LEMMA SettingsCalled ==
  ASSUME FamilyInv, Called(SettingsTask)
  PROVE  cmd \in Unloaded \/ LinkCmd
<1>1. Called("deploy:symlink:settings")
  BY DEF FamilyInv, Ran, Called
<1>2. cmd = "deploy:symlink:settings" \/ Called("deploy:symlink:release")
  BY <1>1 DEF FamilyInv, Ran, Called
<1>3. \/ cmd \in {"deploy:symlink:settings", "deploy:symlink:release"}
      \/ Called("deploy:publishing")
  BY <1>2 DEF FamilyInv, Ran, Called
<1> QED
  BY <1>3 DEF FamilyInv, Unloaded, Opened, LinkCmd

\* The task that is missing.
Missing == \/ Subject = "wordpress:install" /\ cmd = "deploy:install"
           \/ Subject = SettingsTask /\ cmd \in Unloaded

\* A task that nothing defines is wordpress:install, or the settings of a platform that
\* was not loaded.
LEMMA UnknownTask ==
  ASSUME OnceInv, ComesInv, InvokeUnknown
  PROVE  Missing
<1>1. /\ agenda # <<>> /\ Subject \in Names /\ Head(agenda) = Invoke(Subject)
      /\ In(agenda, Invoke(Subject)) /\ Subject \notin DOMAIN actions
  BY ItemParts DEF InvokeUnknown, Due, Subject, OnceInv, TypeInv, In
<1>2. Called(Subject)
  BY <1>1 DEF Called
<1>3. Subject \notin BaseTasks
  BY <1>1 DEF ComesInv, CallsInv
<1>4. Subject \in PlatformTasks(flags) \cup {"wordpress:install"}
  BY <1>1, <1>2, <1>3 DEF ComesInv, FamilyInv
<1>5. CASE Subject = "wordpress:install"
  BY <1>2, <1>5 DEF ComesInv, FamilyInv, Missing
<1>6. CASE Subject \in PlatformTasks(flags)
  <2>1. cmd \in Late
    BY <1>1, <1>6, PlatformKnown
  <2>2. Subject \in LateThings
    BY <1>1, <2>1, ItemParts DEF ComesInv, LateInv
  <2>3. Subject = SettingsTask
    BY <1>6, <2>2 DEF PlatformTasks, SettingsTask, OfPlatform, LateThings, LateTasks, Late,
                      Unloaded
  <2>4. ~LinkCmd
    BY <2>1 DEF LinkCmd, Late, Unloaded
  <2>5. cmd \in Unloaded
    BY <1>2, <2>3, <2>4, SettingsCalled DEF ComesInv
  <2> QED
    BY <2>3, <2>5 DEF Missing
<1> QED
  BY <1>4, <1>5, <1>6

\* Whatever the command, a task that nothing defines is wordpress:install for
\* deploy:install, or the settings of the platform for a command that starts at the
\* publishing or at the links.
THEOREM TasksKnownSafe == Spec => []TasksAreKnown
<1>0. TasksAreKnown <=> (status = "unknown" => Missing)
  BY DEF TasksAreKnown, Missing, SettingsTask
<1>1. Init => TasksAreKnown
  BY DEF Init, TasksAreKnown
<1>2. OnceInv /\ ComesInv /\ TasksAreKnown /\ [Next]_vars => TasksAreKnown'
  <2> SUFFICES ASSUME OnceInv, ComesInv, TasksAreKnown, [Next]_vars, status' = "unknown"
               PROVE  Missing'
    BY DEF TasksAreKnown, Missing, SettingsTask
  <2>1. \/ InvokeUnknown
        \/ status = "unknown" /\ UNCHANGED <<agenda, cmd, flags>>
    BY DEF Next, vars, InvokeTask, InvokeUnknown, RunActions, DoOp, OpFails, AddHooks,
           Finish, Due
  <2>2. UNCHANGED <<agenda, cmd, flags>> /\ Missing
    BY <1>0, <2>1, UnknownTask DEF InvokeUnknown
  <2>3. UNCHANGED <<Subject, SettingsTask>>
    BY <2>2 DEF Subject, SettingsTask, OfPlatform
  <2> QED
    BY <2>2, <2>3 DEF Missing
<1> QED
  BY <1>1, <1>2, OnceHolds, ComesHolds, PTL DEF Spec
=============================================================================
