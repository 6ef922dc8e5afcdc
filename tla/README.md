# A formal model of Forum One's Web Starter Kit

This directory holds TLA+ models of the program in this repository, the TLC
configurations that check them, and theorems about them with TLAPS proofs.
Paths below are relative to the repository's root (`src/` in `PROJECT.json`).

## 1. The system

Almost all files under `public/` are Drupal 7 and contributed modules, copied in. The
repository's own program is the code around them. Of what is copied in, three parts are
modelled too, because they run concurrently in the sites the kit deploys and are hard to
test: the autocomplete fields and the Ajax forms of Drupal and the event manager of
FullCalendar.

| Component | Code | State it keeps | Operations |
|---|---|---|---|
| Deployment commands | `lib/capistrano/tasks/{web,drush}.rake`, `capistrano/{rsync,drupal}.rb`, `config/deploy.rb`, `config/deploy/*.rb` | on each host `releases/`, the links `current` and web root, `shared/deploy`, the site's database and its dumps; on the operator's machine `tmp/deploy` | `cap <stage> deploy`, `deploy:rollback`, `deploy:cleanup`, `deploy:install`, `drush:*` |
| Rake task graph | the same files: hooks on the stock Capistrano tasks, some of them added while the command runs | which tasks were invoked, the prerequisites and actions of each | `Rake::Task#invoke`, `enhance` |
| WordPress deployment | `capistrano/wordpress.rb`, `lib/capistrano/tasks/wpcli.rake` | as above, `db.sql.gz` in the release | `wordpress:*`, `wpcli:*` |
| VM provisioning | `Vagrantfile`, `puppet/shell/*.sh` | marker files and installed packages of the VM | `vagrant up`, `vagrant provision` |
| Parallel Behat runner | `patches/grunt-parallel-behat.patch`, `tasks/config/behat.js` | running test processes, JUnit files | `grunt behat*` |
| Behat contexts | `tests/behat/features/bootstrap/*.php` | entities made by a scenario | step definitions |
| Grunt build | `Gruntfile.js`, `tasks/**` | none | `grunt build` |
| Autocomplete fields | `public/misc/autocomplete.js` | per field the text, the popup, the highlighted item, the throbber; one database of answers (`ACDB`) with an owner, a wanted string, a timer and a cache for all fields with the same path | keys, mouse, focus; the delayed search; answers and errors |
| Calendar events | `public/sites/all/libraries/fullcalendar/src/{EventManager,Calendar}.js`, `src/common/View.js` | the sources, the cache of events and its range, the number of the fetch, the sources pending, the loading level; the view and the array reported to it | navigation, refetching, sources and events added and removed, answers |
| Ajax forms | `public/misc/ajax.js`, `public/includes/{ajax,form}.inc` | per element an ajax object with a flag, a throbber and a disabled element; per page the form build id; on the server the cached forms | an event on an element, `beforeSerialize` to `beforeSend`, `success`, `error`, `ajax_get_form`, `ajax_form_callback`, expiry |
| Theme, modules, rest of Drupal | `public/**` | not the program's own | - |

How they interact.  An operator (a person or a Jenkins job) runs `cap`.  Rake invokes
Capistrano's tasks; the hooks of this repository weave theirs in.  A task runs on every
host of a role (`roles(:all)`, `:app`, `:web`, `:db`), all hosts at once, and the next
task starts when the last host is done.  The first remote command that fails ends the
process there, with nothing undone.  `git`, `npm`, `grunt` and the local `rsync` are run
with `system`, whose result is dropped.  Meanwhile developers push, editors change the
site and visitors fill Varnish.

What is hard about it: there is no lock, no transaction and no undo; the code goes back
by one order (modification time of release directories, `ls -t`), the database by
another (their names, `ls -r`), and the clean-up by a third rule (the newest names),
none of which looks at `current`; the backup depends on whether Drush reaches the site
from a release that is not yet published; and the order of everything is implicit in
hooks spread over four files.

In the browser handlers run one at a time, but what they start ends later: a timer of
300 ms, a popup that fades for 100 ms, a request that is answered late, after a newer
one, or never. Autocomplete fields meet in the `ACDB` object that all fields with the same
path share; calendars meet their sources through callbacks that hold the number of
the fetch; the elements of an Ajax form meet in the build id of the page and, on the
server, in the cached form of that id, which several visitors can hold at first when
the page came from the page cache.

Correctness, by component:

* *Deployment commands*: the served release is never deleted; a success means that the
  release is live everywhere, backed up, and the database fits it; a failed command can
  lose no more than the edits since the newest deploy; a rollback remains possible; no
  page of an old release stays cached; a deploy nobody interrupts goes live.
* *Rake task graph*: every task reached is defined by then, no step is done twice, every
  command ends, a command that links a release changes the database only after backup,
  link and settings.
* *WordPress deployment* (planned): the restored dump is the target's own, taken at its
  publication, so what is lost is everything since then.
* *Behat contexts*: a step that says fields are correct passes only if they are, and fails
  only if they are not.
* *Autocomplete fields*: a popup shows the answer to what its field wants and nothing else;
  nothing goes on in a field that was left; a search ends.
* *Calendar events*: what is pending and loading is counted exactly whatever comes late or
  fails; when the last source has answered, every source's events are there and shown.
* *Ajax forms*: an element is disabled exactly while it waits, and the throbbers on a page
  are those of its elements that wait; the behaviors come back; no visitor meets another's
  form; a request is refused for known reasons only; what a page shows is in the form it
  submits next.
* *Provisioning* (not modelled): running the scripts again after an interruption should
  end in the state an uninterrupted run ends in.
* *Parallel Behat runner* (not modelled): each feature's result should be read from its own
  run, the retries be bounded, and at most five processes run.

## 2. Modules

| Module | What it is |
|---|---|
| `DeployPlans` | the steps of each command and what follows each, as constants |
| `Deployment` | the hosts, the database, the runs of operators, and the world around them |
| `DeploymentProofs` | the types; the served release is never deleted; what is restored holds what the site held when the newest release was named |
| `SuccessProofs` | what a deploy or a rollback that ends well promises (live everywhere, pruned, no stale page), and what makes it safe to undo: its dump, its one tree, a release to go back to, the order of dump and updates |
| `SchemaProofs` | where nothing fails the database fits the code, however deploys and rollbacks alternate |
| `RakeTasks` | Rake's invocation rules over the task table and the hooks |
| `MCRakeTasks` | the settings and commands `RakeTasks` is checked with |
| `RakeTasksProofs` | no step is done twice, every task is known, and the updates of the database come last |
| `FieldCheck` | the Behat step that compares saved fields with edit forms |
| `MCFieldCheck` | the nodes `FieldCheck` is checked on |
| `FieldCheckProofs` | what a pass and a failure of that step mean, for all nodes |
| `PlanWalk` | abstract: a command walks down its plan; refined by `RakeTasks` |
| `LatestAnswer` | abstract: a part of a page shows nothing or the answer to its last question; refined by `Autocomplete` |
| `Autocomplete`, `MCAutocomplete`, `AutocompleteProofs` | the autocomplete fields that share a database; what is typed in the runs; the proofs |
| `Calendar`, `MCCalendar`, `CalendarProofs` | the events of a calendar; the views of the run; the proofs |
| `AjaxForm`, `MCAjaxForm`, `AjaxFormProofs` | a form on several pages and its cache on the server; the form of the run; the proofs |

`Deployment` takes the order of steps from `DeployPlans`. That this is the order the
hooks really give is not assumed: run `tasks` checks that `RakeTasks`, which executes
the hooks, implements `PlanWalk`, which walks `DeployPlans`.

### Deployment

State: `releases`, `code` (what each release directory holds: the commit of its sources,
the commit of its built files, whether it is complete, whether Drush could bootstrap
from it), `newer` (the order of modification times, as the set of releases touched
since), `current`, `webroot`, `linked` (releases whose `settings.php` is the link),
`cache` (`shared/deploy`), `db`, `dump` (in the release directories of the db host),
`pages` (in Varnish), `staged` (`tmp/deploy`), `head` (the branch), `runs` (for each
operator the command, its step, the hosts still to do it, `release_path` and the
release being reverted), `lastId` (the clock) and the history variable `base`.

Actions, each one step of one host, with the code it models:

| Action | Code |
|---|---|
| `Start` | `cap <stage> <command>` |
| `NewPath` | `deploy:new_release_path` (Capistrano) |
| `Stage`, `Build` | `rsync:stage` (`rsync.rb:67-87`), `web:build` (`config/deploy.rb:54-60`) |
| `Rsync`, `Copy`, `CopyBreaks` | `rsync.rb:33-50`, `rsync.rb:89-102` |
| `DumpTaken`, `DumpSkipped` | `drush:sqldump` (`drush.rake:102-117`) |
| `Aliases` | `drush:aliases` (`drush.rake:49-57`): fails where the release is missing |
| `Link`, `RemoveWeb`, `LinkWeb`, `Settings` | `deploy:symlink:release` and its hooks (`web.rake:6-9, 75-87`, `drupal.rb:23-55`) |
| `UpdateHook`, `UpdatesDone` | `drush:updatedb` (`drush.rake:119-128`), one hook at a time |
| `Ban` | `web:varnish:ban` (`web.rake:46-63`) |
| `Cleanup`, `Archive` | `web.rake:89-107`, `web.rake:109-124` |
| `Pick` | `deploy:rollback_release_path` (Capistrano: second of `ls -t`; the last host wins) |
| `Gunzip`, `DropTables`, `Import` | `drupal:revert_database` (`drupal.rb:57-68`) |
| `Refuse` | a step whose command must fail: no dump to unpack, no release directory, no settings |
| `Abort` | a remote command fails for a reason outside the model, or `cap` is interrupted |
| `Push`, `Edit`, `View` | developers, editors, visitors |

`Copy` includes the `REVISION` file that Capistrano writes behind the copy: it dates the
directory. A dump's file form matters (`db.sql.gz` or `db.sql`), its content is the
schema and the number of edits it was taken at. Commits are numbers, and a commit's
number is the newest update hook it ships. Whether a commit ships a working
`settings.php` of its own (`OwnRevs`) and one for the stage (`StageRevs`) is a constant:
`public/.gitignore` keeps both out by default, so sites differ.

The first release is assumed to have been put there by `deploy:install`.

### RakeTasks

State: the command and the settings; the tables `prereqs` and `actions`; the set
`invoked`; the `agenda`, which is Ruby's call stack written out; the `log` of steps done.
`InvokeTask` is `Rake::Task#invoke`; `RunActions` is `execute`, which looks the actions up
after the prerequisites ran; `AddHooks` is `web:load_platform`, `web:add_build` and
`rsync:hook_scm`, which change the tables while they are in use; `DoOp` and `OpFails` do
a step. The tables are the hooks and tasks of the six files, in the order they are
loaded: a file is a set of rows, a row what it adds to the entry of one task, and `Enhance`
what Rake does with it. A task whose name the code puts together with `fetch(:platform)`
is one of two (`OfPlatform`). Any one task that is there when `cap` starts may be the
command (`CommandAssumption`): all tasks of the `.rake` files, of `rsync.rb` and of the stock ones
they hook or are reached from, also those that are only meant to be a part of others; a task of
`capistrano/drupal.rb` or `wordpress.rb` is not there when Rake looks the command up, and `load:defaults`
only gives the settings their values. Several commands in one call of `cap`, which would share the
memory of what was invoked, are not modelled. A command that starts behind `deploy:starting` (`Unloaded`:
`deploy:publishing`, `deploy:symlink:release`, `deploy:symlink:settings`) finds no platform loaded: it
links, and stops at the settings. `TasksAreKnown` and `UpdatesComeLast` name these commands as exceptions.

Because `:scm` is `rsync`, `rsync:check` gets itself as an action and the release
is reached both as a prerequisite and as an action of `rsync:create_release`; `StepsOnce`
and `CommandEnds` say that this does no harm, and the mutants show that it would if a hook
used `execute` for `invoke`.

### FieldCheck

`iIterateThroughNodesCreatedAndCheckThatFieldsAreCorrect` (`F1ContentUtilityContext.php`) as
a state machine over its loop positions `n`, `f`, `i` and its local variables
`$field_final_value` (`final`) and `$match` (`match`, which nothing resets). `Selected` is
`getFieldSelectedValues`, whose result is a string, a flat array, an array of arrays or an
exception, depending on the widget; a group of one checkbox or radio (`box`) is one of the
widgets whose value is not read (`count($field_value) > 1`, line 147). A value is a number, 0 being what `empty()` takes for
no value. What the step establishes (`PassedValuesAreShown`) is less than what its text says
(`PassIsCorrect`); where the widget suits the kind it does not fail without a reason
(`FailureIsReal`). At a group of one box it does: such a group is not among the widgets `FailureIsReal`
is about (`Suited`), because it fails whatever the form shows.

### Autocomplete

State: `ui`, for each field what its `jsAC` object and the screen hold (`value`, whether the
popup is `open`, its `list`, the `selected` item and whether that is still in the document,
the items of popups `fading` out, `throbbing`); `focus`; `due`, the key pressed and
not yet released; `owner`, `searchString`, `timer` and `cache` of the `ACDB` object; the
unanswered `requests` by key; and `failed`, a history variable.

| Action | Code (`misc/autocomplete.js`) |
|---|---|
| `Focus`, `Blur` | the user enters a field (nothing happens yet) and leaves it: `hidePopup`, then `cancel` |
| `Type`, `Press`, `ReleaseElsewhere`, `ReleaseOnEmpty` | `onkeydown`, `onkeyup`: a key that was pressed is handled when it is released, in whichever field has the focus by then |
| `Search`, `SearchNothing`, `SearchCache`, `SearchLater` | `populatePopup`, by which the field becomes the owner, and `ACDB.search`: too short a string, an answer from the cache, the timer |
| `Dismiss`, `Highlight`, `Unhighlight` | Tab, Enter and Esc, the arrow keys, the mouse: `hidePopup`, `highlight`, `unhighlight` |
| `SubmitStopped` | `autocompleteSubmit`: while a popup is open Enter only closes it |
| `FadeDone` | the popup that `hidePopup` faded out is removed |
| `TimerFires`, `Arrives`, `Fails` | the delayed request, its success and its error |

Two facts of the code shape the model. `found` empties the list of the popup but leaves
`this.selected` at an item that is no longer there (`Gone`); and an answer taken from the
cache does not stop the timer. The values are those of a small set with a function `Key`
for trimming and for what is not searched; the suggestions of a key are a set. What is asked
for is the trimmed text, what is compared with it when it is answered is not
(`autocomplete.js:276, 306`): `SearchEnds` is about texts without spaces around them
(`searchString = Key[searchString]`), for the answer to any other is kept and never shown.

### Calendar

State: `visible`, `shown` (the days of the view), `rendered` (what the view shows), `events`
and `live` (the array the calendar was given last, and whether it is still the event
manager's cache: the code compares nothing, it holds a reference), `sources`, `cache`,
`fetchID`, `pending`, `loading` (`loadingLevel`), `stock` (the arrays of the array sources),
`calls` (unanswered) and two history variables. A cache is the days it was fetched for and
how often each source's events are in it, so that twice and never can be told apart.

| Action | Code |
|---|---|
| `GoFetch`, `GoLazily` | `renderView` (a view of another type is rendered anew even when it shows the same days), `getAndRenderEvents`, `isFetchNeeded` (`Calendar.js`, `EventManager.js:60-66`) |
| `RefetchEvents` | `refetchEvents`; `FetchEvents` is `fetchEvents` with the callbacks of array sources, which come at once |
| `AddEventSource`, `RemoveEventSource` | the same names; a source added is fetched under the current number, and the events of an array are built from its input again |
| `RenderEvent`, `RemoveEvents`, `UpdateEvent` | the same names, then `reportEvents` |
| `HideOrShow` | the page hides the calendar: `elementVisible` is then false and `renderEvents` does nothing |
| `Answer` | `success` or `error` of the request, then `complete` |

### AjaxForm

State: in the browser the ajax objects of each page (`ajaxing`, which also says that the
element is disabled; `progress`, whose throbber is on the page; an
object being the n-th incarnation of an element, counted by `made`), `calls` (requests
the page waits for), `attached` (the behaviors of the form), `buildId`, `shown`; the
logins and logouts of each visitor (`session`); on
the server `pageCache`, `forms` (the cache of forms, each entry with the token of the session that
stored it), `jobs` (requests being processed) and `answers`. The data of a form is the set of the
steps (requests) it was built from.

| Action | Code |
|---|---|
| `EventResponse` | `eventResponse`, `beforeSerialize`, `beforeSubmit`, `beforeSend` (`misc/ajax.js`) |
| `Success` | `success` with the commands `updateBuildId` and `insert`, then `complete`; `insert` takes the elements in the wrapper away with the throbbers beside them (`Beside`) |
| `Error` | `error`, then `complete`; what the server has begun goes on |
| `AjaxGetForm`, `Refuse` | `ajax_get_form` (`ajax.inc:322-365`) and `form_get_cache`: an entry stored by another session is not found (`form.inc:522`); a form of a cached page gets a new build id |
| `Submit` | `drupal_process_form` (`form.inc:902-912`): a button submits the form without errors, and with the page cache off its entry is deleted |
| `AjaxFormCallback` | the rest of `drupal_process_form` with `drupal_rebuild_form` or line 986, `form_set_cache`, and `ajax_form_callback` (`ajax.inc:384-412`) |
| `Dies` | PHP dies, or a batch ends the request: what was deleted stays so |
| `LoginOrLogout` | in another tab; a request on its way runs as whom it was sent by, or as nobody |
| `Expire` | the cached form is forgotten after six hours |

A job is two or three steps, so that two requests can both load a form before either stores it, and
others find none while one is deleted.
An answer is only of interest while its page waits for it. An entry is `stored`, `cleared` (deleted by a
job that goes on), `lost` (deleted by one that did not) or `expired`; `FormIsKnown` says that these, the
token and nothing else are why a request is refused.

## 3. Runs

Passing runs:

| Run | Instance | Shows |
|---|---|---|
| `one_host` | one server with all roles, 4 releases, 2 kept, 1 commit, 1 edit; any command may fail, the copy may break off | `LiveReleaseExists`, `ContentKept`, `SuccessIsLive`, `DeployIsBackedUp`, `RollbackReady`, `KeptAtMost`, `TypeOK` |
| `no_failures` | one server, 5 releases, 2 commits, nothing fails, runs are fair | `SchemaFitsCode`, `DeployGoesLive` |
| `two_hosts` | two app servers of which one has the database and Varnish, failures | `SuccessIsLive`, `DeployIsStaged`, `UpdatesCanBeUndone`, `NoStalePages` |
| `tasks` | each of the 53 tasks that are there when `cap` starts, as the command, under all 64 settings, any step failing | `TasksAreKnown`, `StepsOnce`, `UpdatesComeLast`, `CommandEnds`, `FollowsPlan` |
| `field_check` | two fields, of one node or two, every kind, widget (a group of one box among them) and value of 0..2 | `PassedValuesAreShown`, `FailureIsReal` |
| `autocomplete` | two fields, four values of which two are searched for, one of them without a suggestion; answers late, reordered or failing | `ShownIsWanted`, `OnlyFocusedSearches`, `ThrobberMeansWork`, `ShowsLatestAnswer` (the refinement of `LatestAnswer`), `SearchEnds`, `TypeOK` |
| `calendar` | a wide and a narrow view, one array and two requested sources, three changes, two fetches | `PendingIsExact`, `LoadingIsExact`, `NothingIsMissing`, `CacheIsShown`, `Settles`, `TypeOK` |
| `ajax_form` | two visitors, with the page cache and without, two elements that refresh the same rows, two requests, submissions, logins and logouts | `WaitingIsShown`, `BehaviorsReturn`, `Isolated`, `FormIsKnown`, `ShownIsCached`, `ImmutableIsKept`, `TypeOK` |

Runs that find a disagreement between the code and what the repository says of it (each
is described under `findings` in `PROJECT.json`):

| Run | Property | What happens |
|---|---|---|
| `no_backup` | `DeployIsBackedUp` | the dump is skipped silently when the release's own settings do not reach the database |
| `two_sites` | `SchemaFitsCode` | a rollback restores only the first site |
| `fields_correct` | `PassIsCorrect` | a field the step does not compare passes with the result of the one before |
| `lost_suggestion` | `SelectionIsSuggestion` | an answer refills the popup while an item is highlighted; Enter or leaving the field then puts "undefined" into it |

Four more weaknesses of the deployment show when the instances are changed: with `"cleanup"` among the `Commands` of `one_host`,
`deploy:cleanup` run by itself after failed deploys deletes the live release
(`LiveReleaseExists`), because it keeps the newest names; with two operators and
`Serialised = FALSE` concurrent runs do so too; with `"git"`, `"build"` or `"push"` among
the `Faults` a deploy succeeds with an old, unbuilt or partial tree (`DeployIsStaged`); and
with `SchemaFitsCode` among the invariants of `one_host` a rollback that fails uses its dump
up, so that a later one restores a database whose schema does not fit the code.

Four more weaknesses are exceptions that the properties of the passing runs name; each shows when its
exception is taken out. `deploy:symlink:release` and `deploy:publishing`, given as the command, link a
release without the dump and then stop with an unknown `drupal:settings`, although `web.rake:5` says
"Symlink appropriate folder and settings" (`Unloaded` in `TasksAreKnown` and `UpdatesComeLast`). The
choice in a group of one checkbox or radio is not read, and the step fails though the saved value is shown
(`F1ContentUtilityContext.php:147`; `Suited` in `FailureIsReal`). What is typed with a space behind it is asked for without it, and
the answer is never shown (`autocomplete.js:276, 306`; `SearchEnds`). And without the page cache the
submission of a form by one of its elements deletes the cached form (`form.inc:909-912`): a request of another element, sent
meanwhile, is refused as of somebody who never viewed the form (`ajax.inc:334-338`; `"cleared"` in
`FormIsKnown`).

Three more remarks in the repository differ from the code, without a run of their own:
`web.rake:67` says that `deploy:install` installs the current platform, and nothing
defines `wordpress:install` (the exception in `TasksAreKnown`);
`capistrano/drupal.rb:9` says that the aliases are copied after the link, and the hook
below it makes them a prerequisite of the link (`FollowsPlan` shows that order, and
`LiveReleaseExists` needs it: the copy of the aliases is the only step that refuses a
host without the release before a host links it); `CHANGELOG.md:34` says that Varnish is
cleared on the app role, and `web.rake:49` clears it on the web role.

Bounds. In the deployment runs `MaxReleases`, `MaxRev` and `MaxEdits` bound the names,
commits and edits; an action that would exceed one is not taken (`NewPath`: the run is refused, so that it
does not hang). Three releases with two kept is the least at which a clean-up deletes
something; the fourth lets a failed deploy leave a directory that a rollback and a later
deploy then meet; the fifth lets a rollback follow a deploy that followed a rollback. One
commit and one edit tell old from new; two commits make update hooks run in a row and be
interrupted between them. Two hosts are the least on which a role can be half done. The
invariants compare at most two releases and two hosts at a time. The silent failures (`git`,
`build`, `push`) are in no passing run; the proofs cover them for every instance. For
`FieldCheck` two fields are enough to leave something in `$match` and
to meet it, and three values tell none, the right one and a wrong one apart.

In `autocomplete` one request per key may be unanswered (`MaxRequests = 1`; two keys, so
two requests can overtake each other); `lost_suggestion` needs two for one key. Two fields
are enough, as the database knows one owner and at most one field loses it at a time. A
suggestion "undefined" is not searched for. In `calendar` `MaxFetches = 2` counts the
numbered fetches; sources that are added are asked besides, and `MaxCalls` bounds how
often one source is unanswered in one fetch. Two requested sources tell "the last one
answered" from "one answered", two nested views the cache that suffices from the one that
does not. In `ajax_form` two requests (`MaxSends`) let two visitors, or two elements of one, overlap, and two
logins or logouts (`MaxSessions`) a session end and another begin. That one visitor asks again between the answers to two other
requests takes a third: the theorems of `AjaxFormProofs` cover it, for any number of requests. The visitors are symmetric, and no temporal
property with fairness is checked there.

`CHECK_DEADLOCK FALSE` is set in all runs but `calendar`: all names or requests being used
up and nobody running is a legal end, and so is a command that is over.

Fairness. `FairSpec` of `Deployment` has weak fairness of each operator's steps: a `cap`
process is one thread that waits only for remote commands, and these end. Nothing
is assumed of starts, pushes, edits or visitors. `DeployGoesLive` is checked where nothing
fails (`Faults = {}`). `FairSpec` of `RakeTasks` has weak fairness of the process.
`Autocomplete` assumes that a timer that was set fires and that a request is answered or fails,
for each key; `Calendar` the same of its requests; browsers guarantee both. Nothing is
assumed of users; a popup that fades is removed in the end. `AjaxForm` has no fairness and
no liveness: that an element is given back once its request ends is `WaitingIsShown`.

Every property of a passing run has a mutant, a faulty form of one definition
(`...Skips`, `...Early`, `KeptFewer`, ...), under which TLC finds it violated.

## 4. Proofs

`DeploymentProofs` proves `TypeCorrect`: `Spec => []TypeOK`, for every value of the
constants under the assumptions of `Deployment` (`HostAssumption`, `CommandAssumption`,
`KeepAssumption`, `BoundAssumption`). `TypeOK` is not inductive: that a run's next step is
one of its plan needs `RunsOk`, which says that a running run is at a step of its plan and that a
release it works on has a name. Lemmas treat `Done`, `Touch` and `Remove` once; then there
is a lemma per group of actions.

It goes on to `LiveReleaseSafe`: `Spec => []LiveReleaseExists`, assuming
`TakeTurns` (operators do not run `cap` at the same time, and `deploy:cleanup` is not run by
itself); neither half can be dropped, as said above. The
inductive invariant `LiveInv` adds to the types: at most one run is active
(`OneAtATime`); no host has a release newer than the last name given (`NamesGiven`); and a
chain along the plan (`RunsLive`): a deploy's release is the newest name; the hosts done
with the aliases have it, so at the link all have it; the hosts done with the link
have it as `current`, so afterwards all do. The clean-up belongs to deploys, whose release is
the newest name, and keeps at least that one; the archive step spares `current`; failures only end
the run.

`ContentSafe` is `Spec => []ContentKept`, under `TakeTurns` too. What a rollback
restores is what a dump holds, so `ContentInv` adds to `LiveInv`: a site that is up
holds what it held when each release that is still there was named (`SiteOk`); a dump lies in a
release that is there and holds at least what the site held when that release, or an older
one, was named (`DumpsOk`); a deploy has no dump before the dump step, and a rollback that
drops and imports works on the newest name (`RunsContent`). A new name has no dump because names are
never given twice; copying a release adds no dump that could be too old for it.

`SuccessProofs` is about commands that end well. Such a property speaks of
the end, and none of them is inductive: a run at its last step could be in any state. The
invariants therefore say of each step of the plan what holds of a host from when it
has done that step (`Did`) to the end of the run, and a lemma per action shows that no
later step takes it back. All assume `TakeTurns` and one operator (`OneOperator`: with two, the success
of one may be followed by the failure of the other, of which the property would
still speak).

* `KeptAtMostSafe` (`KeptAtMost`). The core is a lemma on `Kept` for every set of names: the
  oldest name kept has fewer than `KeepReleases` newer ones, which are all the others. It takes
  the oldest from the library's theorem that the natural numbers are well founded.
* `SuccessIsLiveSafe` (`SuccessIsLive`): for any hosts, sites and failures.
* `NoStalePagesSafe` (`NoStalePages`): also assumes `BanWorks` (the secret of a Varnish on a web
  host can be read), without which the ban does nothing, silently.
* `DeployIsBackedUpSafe` (`DeployIsBackedUp`): assumes `OwnSettings` (each revision reaches the database
  with its own settings). Without it the dump is skipped, which is run `no_backup`.
* `DeployIsStagedSafe` (`DeployIsStaged`): assumes `NoHiddenFaults`, that is, that the steps whose result is
  dropped succeed. A `Copy` or a dump that breaks off may be left over from any earlier deploy.
* `RollbackReadySafe` (`RollbackReady`): on one server. With several, `Pick` takes the second of
  `ls -t` of the last host that answers, and hosts that failed deploys left with different
  releases may disagree on it; what holds for any number of hosts, whatever fails, is
  `ReadyOnHostsSafe`: each host has a release of its own that is second there. Where no
  command fails they agree (`RollbackReadyAgreed`, below).
* `UpdatesCanBeUndoneSafe` (`UpdatesCanBeUndone`): for any hosts, sites and failures, but like
  `DeployIsBackedUpSafe` under `OwnSettings`, besides `OneOperator`. With the repository's own
  `public/.gitignore:2` no revision brings settings, the dump may be skipped, and the claim fails with it
  (run `no_backup`). `UndoInv` follows the dump from
  when it is taken to the updates (`Held`) and through the steps of a rollback that use it
  up (`Lost`). The property speaks of the age of the dump only in deploys, because in
  rollbacks it need not hold: with two hosts, aborted runs and seven releases, hosts come to disagree on the
  release touched second, and a rollback takes a dump anew out of order.

`SchemaProofs` proves `SchemaFitsCodeSafe`: `Spec => []SchemaFitsCode` for one site and one operator and any
number of servers, where nothing but `git` and the build fails, which goes unseen. The dumps of the releases
form a chain: each holds the schema of the release named before its own (`Fits`), so that undoing the newest
lands on the schema of the one a rollback picks. This needs names and times of releases to
agree (`NamesInOrder`: `ls -t` and `ls -r` list the dumps alike), update hooks only added along the branch
(`SourcesGrow`), and that each release that is there could bootstrap (`AllBoot`). `Fits` looks at a run as the
database server sees it (`DbRun`): past a step that this server has done and others have not. What the others
do then changes nothing for it, but for one thing: each host that picks a release overwrites `release_path`. They
find the same one, because all had the same releases when the run came to the step (`Agree`) and
list them in the same order (`OtherOrder`). The hypotheses that
exclude failures and a second site are necessary: a rollback that fails uses its dump up, so a later
one restores another (section 3), and the second site is never restored (run `two_sites`).
From the same invariant, `FitInv`, follows `RollbackReadyAgreed`: under these hypotheses `RollbackReady` holds on
any number of servers. `FitInv` was checked with TLC first, on the instance of `no_failures` and on two servers,
with one, two and three releases kept and with `git` and `build` failing.

`FieldCheckProofs` proves `PassesAreTrue` and `FailuresAreReal`, for any list of nodes with any
number of fields and values (`NodeAssumption` gives their types). The invariant says what
`$match` and the positions of the loops know: while the step runs, every text or term field
left behind showed its values, and in the middle of a field what was compared so far did.

`AutocompleteProofs` proves the four invariants of `Autocomplete` and, from them, that it
implements `LatestAnswer` (`ImplementsLatestAnswer`: every step is a question, an answer, a
withdrawal or a stutter), for any set of fields, values and keys. The invariant adds to them that the cache holds an answer or nothing for each key (`CacheHolds`).
`OnlyFocusedSearches` (no field but the owner with the focus has a
popup, a throbber or a timer) is what makes late answers land in the right field.

`CalendarProofs` proves `PendingIsExact`, `LoadingIsExact`, `NothingIsMissing` and `CacheIsShown` for
any sources, views and bounds, with the library's theorems on cardinality. The invariant adds
that no call has a number beyond the current fetch (`CountersOk`), that whatever the cache lacks
is still being asked for under the current number (`CacheOk`), and that with nothing pending
the array reported last is the cache, also while the calendar is hidden (`ReportOk`).

`AjaxFormProofs` proves all properties of `AjaxForm`, for any pages, elements, wrappers and number
of requests. The invariant numbers the requests (`RequestsOk`), gives each build id an owner or
the page cache (`FormsOk`, `JobsOk`: no job loaded from the page cache's form will store under its
id), says who deleted an entry that is being submitted and which session stored one (`ClearedOk`,
`EntriesOk`), and follows the one request of a page whose requests never overlap from the form it
loads, through its deletion, to the answer (`SoloOk`). That the throbbers on a page are those of its elements
that wait needs `ObjectsOk`: no ajax object is ahead of the element on its page.

`RakeTasksProofs` proves the three invariants of the run `tasks`, for any set of commands and of
settings; `CommandAssumption` and `FlagAssumption` leave none out, so they hold for each task
that is there when `cap` starts, with the exceptions the properties name. The work is in two invariants.

* `OnceInv`, for `StepsOnceSafe`. `MayInvoke` and `MayNeed` say who may call whom and `StepOwner` which
  task does a step; every row of every file keeps to that, so the tables do at any time,
  whatever hooks were added (`TablesInv`). The actions of a task come on the agenda once, when it is
  first invoked (`ActsInv`), and its steps come from there (`StepsInv`, `LogInv`). Two facts are
  needed besides. Each file of hooks that adds a step is loaded once (`LoadedInv`), or its rows would be there
  twice. And the step `dump` has two tasks, of which a command reaches one only (`OneDump`): one of them
  given as the command leads to nothing else (`DumpInv`).
* `ComesInv`, for `TasksKnownSafe` and `UpdatesLastSafe` (`ComesHolds`). An agenda is `Guarded` when whatever needs
  something first has it before it on the agenda: the tasks of the platform that which
  loads the platform's file (`LoadInv`), the updates that which links the settings (`SettingsInv`), the link on
  Drupal, and the updates on WordPress, that which takes the dump (`BackupInv`). A guard that
  comes to its turn leaves the next one behind, down to the step itself. For
  this it must not have been invoked before: `FamilyInv` says that a task with
  one caller was called only when that caller has run, and `CallsInv` that the entry of the caller
  has the call, from the start or from when the platform is loaded.
  A command that starts behind the loading of the platform has no such guard: `LateInv` says that
  it comes to the links and the settings, and neither to an update nor to another task of the platform.
  `OrderInv` carries the order from the agenda to the steps done.

Only model-checked: that `RakeTasks` implements `PlanWalk` (`FollowsPlan`). It needs, for three commands, the
whole order of what is left on an agenda, not the order of some pairs of it. TLC goes through all commands
and settings, and the instance is no smaller than the system. The progress and termination properties
(`DeployGoesLive`, `CommandEnds`, `SearchEnds`, `Settles`) and `ENABLED` are outside the provers' reach.

## 5. Not modelled

Of the deployment: the Capistrano generators, the git strategy, `deploy:install` and the Drush tasks
run by themselves, the WordPress backup and restore (its order of tasks is in `RakeTasks`),
file permissions, `.htaccess` and `robots.txt`. `drush:cc`, features and configuration
are steps of `RakeTasks` but change nothing in `Deployment`. Two oddities there have no
property: `drush:cc` does nothing after features are reverted when `drush:update` has
invoked it before (`drush.rake:201`), and `config-sync` is given the whole `:site_url` array
(`drush.rake:166`); also, `rsync.rb:15` adds its defaults to `load:defaults` after that task ran.
Three places of `Deployment` take two remote commands for one step. `drupal:settings` removes
`settings.php` and then makes the link (`drupal.rb:27-30`): a failure in between, which leaves the release
without either, is not modelled, unlike the one between the two commands of the web root
(`RemoveWeb`). The clean-up and the archive run `chmod` (and `tar`) before `rm -rf` (`web.rake:100-101,
115-119`): a `chmod` that fails changes nothing modelled and is an `Abort` before the step, but an `rm -rf`
that breaks off and leaves a part of a release is not modelled.

Of the browser: the trimming that makes two texts one key of the cache is in `Key`, but a
key that is the name of a property of JavaScript objects is not; filters of `removeEvents` and
events that do not stick; drawing and dragging of events; the other Ajax commands, links
with the class `use-ajax`, progress bars, handlers that veto or throw, and a full submit of the
form. `form_get_cache` reads a form and its state one after the other (`form.inc:518, 523`) and
`AjaxGetForm` reads both at once: an entry that expires in between is not modelled. jQuery ends a request with
one of several statuses, and `ajax.js:193` treats only `error` and `parsererror` as errors; `Error` stands for
these two. `timeout` cannot come, as no code sets one, and `abort` is not modelled. The empty
answer to a refused request comes with the status `success`; without a command it changes the page as `Error` does. Removing a source while its answer is out brings its events back
(`EventManager.js:287`); the model does so, and no property forbids it.

Whole components: provisioning (`librarian-puppet-install.sh:91` makes the directory that marks
Ruby as installed before the download, so a failed download is not repeated) and the parallel
Behat runner (features of the same name share a JUnit file, and a task is put back once for
each failing suite) are known from a patch and shell scripts, and what matters in them is in
the programs they call. The other Behat contexts, the Grunt configuration, the theme and the
exported modules keep no state. The other JavaScript under `public/` is third-party: jQuery and its
plugins, in several versions, jQuery UI, editors, Modernizr, and the administration pages of
contributed modules. It makes up nearly all of the repository's JavaScript; the parts
modelled are those in which timers and answers meet.

## 6. Plan

1. *(done)* `DeployPlans`, `Deployment`, its runs, `TypeCorrect`, `LiveReleaseSafe`.
2. *(done)* `RakeTasks`, `PlanWalk` and the refinement between them.
3. *(done)* `FieldCheck` and its theorems.
4. *(done)* `Autocomplete` over `LatestAnswer`, `Calendar`, `AjaxForm`, each with its proofs.
5. *(done)* All safety properties of `Deployment` as theorems: `ContentSafe`, the promises of a
   success, backup and undo, and `SchemaFitsCodeSafe`.
6. `Deployment`: `deploy:install`, the Drush tasks run by themselves, and a WordPress plan with
   its own backup and restore.
7. `Site`, what the deployment promises a visitor (a site is at one release, moves to a
   published one or back), refined by `Deployment`.
8. *(done)* `StepsOnce`, `TasksAreKnown` and `UpdatesComeLast` of `RakeTasks` as theorems, for every
   command.
9. `FollowsPlan` as a theorem: what is left on the agenda, with the hooks spread out, as the rest of
   the plan.
