# A verification of shuvjobs

shuvjobs lists the scheduled jobs of a machine (cron, systemd timers, at,
anacron, launchd) and adds, edits, deletes, enables and disables them, locally
or over SSH, from a command line and from a terminal interface. This directory
holds TLA+ modules that model the parts of it that change something, TLC
configurations that check them on small instances, and theorems about every one
of them that keeps state, the executor and what rests on it foremost, that TLAPS
proves for every instance.

    tlc -workers 2 -config PlanExecutor.cfg MCPlanExecutor.tla
    tlapm PlanExecutor_proofs.tla

## 1. The system

Paths are relative to `src/crates/`. A mutation takes this way:

    key or argv -> Op -> Session::apply -> writer.plan   (reads the host)
                                        -> backups       (operator's machine)
                                        -> writer.plan   (reads the host again)
                                        -> execute       (writes the host)

| Component | Source | State it keeps | Operations | What makes it correct |
|---|---|---|---|---|
| Plan executor | `shuvjobs-core/src/manage.rs` | the list of changes, the `applied` prefix, outputs, notes | `execute`, `roll_back`, `fail` | all or nothing on files; newest undone first; success never reported over a failed command; always ends |
| Apply session | `shuvjobs/src/ops.rs` | none in memory; the backup directory | `plan`, `apply`, `write_backup`, `resolve`, `collect_local`, `merge_edit` | what an apply read and destroys can be found in the backup directory; an edit changes what it names |
| Cron writer | `shuvjobs-adapters/src/write/cron.rs`, `lineedit.rs` | the crontab, run-parts scripts | `create`, `update`, `delete`, `set_enabled` | one line changes and it is the right one; the id reported is right |
| Systemd writer | `shuvjobs-adapters/src/write/systemd.rs` | unit files, the manager's view of them | the same four, `verify_loaded` | a success is in effect in the manager; unit files of others survive |
| Launchd writer | `shuvjobs-adapters/src/write/launchd.rs` | plists, what launchd has loaded, its override database | the same four | the plist and the loaded job agree; off stays off over a login; plists of others stay theirs |
| At writer | `shuvjobs-adapters/src/write/at.rs` | the queue | create, update (create, then remove), delete | no job is lost by an edit, and none is there twice unreported |
| Anacron writer | `shuvjobs-adapters/src/write/anacron.rs` | `/etc/anacrontab`, spool stamps | the same four | one line changes; the name stays unique; no stamp without a job |
| Terminal interface | `shuvjobs-tui/src/lib.rs`, `form.rs` | mode, busy, form, pending popup, rows; a worker thread and two channels | keys, `poll_worker`, `maybe_auto_refresh` | one request at a time; nothing written unconfirmed; never stuck |
| Local host | `shuvjobs-adapters/src/local_host.rs` | files, a cached `id -u` | `read_file`, `write_file`, `remove_file`, `exists`, `run` | a file is written as a whole or not at all; root's work is done by root |
| Remote host | `shuvjobs/src/remote.rs`, `shuvjobs-core/src/host/shell.rs` | SSH master, cached user and policy | the same over SSH | an error of the link is never taken for an answer of the command |
| Collector | `shuvjobs/src/remote.rs`, `shuvjobs/src/ops.rs`, the readers | none | five sources, a dozen commands | a listing is complete or an error, and true |
| Schedules, calendars, ids | `manage.rs`, `write/calendar.rs`, `ids.rs` | none | parsing and rendering | what is rendered means what was parsed; an id leads back to its job |
| View, export, command line | `view.rs`, `export.rs`, `main.rs`, `cli.rs` | none | sorting, filtering, printing | |

How they interact: writers make plans and call `execute`, which calls the
`Host` trait; `Session` calls a writer twice per apply; the interface calls
`Session` from its worker thread only, and talks to that thread over channels.
The files, the manager and the crontab are shared with every other program on
the machine; there is no locking anywhere.

The hard behaviours, each with its line in `PROJECT.json` under `hazards`:

* a step of a plan fails, its failure is a lie (the answer was lost), the undo
  of a step fails, or the process is killed between two steps;
* files, crontabs and units change between the listing and the plan, between
  the two plans, between the plan and the write;
* ids of cron jobs are line numbers, and the banner of `crontab` shifts them;
* the manager goes by what it loaded, not by what is on disk, and launchd also
  by a database that no listing of this program shows;
* the queue of at changes while an edit is between its two commands: atd runs
  the old job, another session edits it too;
* a collection is a dozen commands, each of which may be missing, refused or
  lost, while timers come and go between them;
* a script outlives the connection or the process that feeds it, and a cached
  answer ("are we root?") outlives the failure it came from;
* a schedule passes through four notations and back, each with its own rules,
  and a name through a text that was made for reading;
* replies of the worker arrive in whatever mode the interface is by then; the
  worker may die, and it dies with the process.

## 2. The modules

| Module | Models | Composes |
|---|---|---|
| `PlanExecutor` | the executor over a host with faults | |
| `PlanStack` | abstract: what the executor promises | implemented by `PlanExecutor` |
| `PlanExecutor_proofs` | four invariants of `PlanExecutor` and the refinement of `PlanStack`, proved | extends `PlanExecutor` |
| `ApplySession` | two plans, backups, writes of several processes | |
| `CronWriter` | the cron writer, its line editor, `crontab`, run-parts scripts, an operator with a listing | |
| `CronWriter_proofs` | three action properties of `CronWriter`, proved | extends `CronWriter` |
| `SystemdWriter` | the plans of the systemd writer and the service manager | extends `PlanExecutor` |
| `SystemdWriter_proofs` | two invariants of `SystemdWriter`, and the executor's, proved | extends `SystemdWriter`, `PlanExecutor_proofs` |
| `LaunchdWriter` | the plans of the launchd writer, launchd, logins | extends `PlanExecutor` |
| `LaunchdWriter_proofs` | three invariants and an action property of `LaunchdWriter`, proved | extends `LaunchdWriter`, `PlanExecutor_proofs` |
| `AtWriter` | the at writer in several sessions, the queue, atd | |
| `AtWriter_proofs` | four invariants of `AtWriter`, proved | extends `AtWriter` |
| `AnacronWriter` | the anacron writer, the file, the spool, anacron | |
| `AnacronWriter_proofs` | four invariants of `AnacronWriter`, proved | extends `AnacronWriter` |
| `Collector` | one collection, local or over SSH: systemd, cron, launchd, at, anacron | |
| `HostFiles` | reads, writes and removals of one file by either host, privileges, a breaking link, a dying process | |
| `Session_proofs` | two properties of `ApplySession`, three of `HostFiles` and three of `Collector`, proved | extends `ApplySession`, `HostFiles`, `Collector` |
| `MCSession` | instance: processes that apply, one that lists, or one that works on a file | extends `ApplySession`, `Collector`, `HostFiles` |
| `Schedules` | texts of schedules and what they mean; a small clock | |
| `Conversions` | parsing, rendering and reading back of schedules | extends `Schedules` |
| `JobIds` | ids, where they lead, names | |
| `Editing` | a job added, listed and edited by command line and form | extends `JobIds`, `Conversions` |
| `TuiApp` | event loop, popups, worker thread, channels | |
| `Interface_proofs` | four invariants and two action properties of `TuiApp`, and four invariants of `Editing`, proved | extends `TuiApp`, `Editing` |
| `MCInterface` | instance: the loop, or a job that is edited | extends `TuiApp`, `Editing` |
| `MCPlanExecutor`, `MCSystemdWriter`, `MCLaunchdWriter`, `MCAtWriter`, `MCAnacronWriter` | instances | |

**PlanExecutor.** `plan` is `changes`; `next` the loop's position; `applied`
the indices pushed on the vector of that name. `FileStep`, `FileStepFails`,
`RunCommand`, `RunCommandFails` are the arms of the loop, `Undo`, `UndoFails`
one turn of `roll_back`, `RolledBack` the return of `fail`. Faults: a call may
be *refused* (no effect) or *lost* (effect, and an error). `Kill` ends the
process anywhere, `External` is a write by anybody else. A file has contents
and mode bits. The plans are a constant, under the one assumption the writers
meet: no two steps of a plan name the same file.

**PlanStack.** File changes come into force in order, leave in reverse order,
and are set aside once somebody else wrote the file or an answer was lost. The
refinement mapping reads what is in force off the disk, not off `applied`.

**ApplySession.** A file's contents are a version number, so "these contents
are somewhere in the store" can be said. The store maps a flattened name and a
second to a copy, as `backup_path` does. `Replan` is the second dispatch;
`Write` does not look at what it replaces, as `execute` does not. `Stamps` are
the files a plan removes without having read them: `drop_spool` of the anacron
writer plans `RemoveFile { before: None }`, so `backup_targets` passes over
them and a rollback does not put them back. `log` is every backup that was made
and `Crowded` says that another took its second and name. Crontabs of users and
the queue of at are changed by commands, not by file changes, and are in no
backup; they are no `Paths`.

**CronWriter.** A crontab is a sequence of lines, a line a record of what the
parsers tell apart. `Collect` and `Ask` are the operator: a listing, and a
mutation of one of its lines. `Plan` reads again and refuses (`Drifted`) or
finds nothing to do (`Already`); `Apply` installs; `Settle` is the second
reading that looks for the new job. Removing a crontab with `crontab -r`,
removing a file with the marker, and the banner are in. A run-parts script is a
crontab of one line whose executable bit is the marker: it is neither created
nor edited (`Unsupported`), it is removed unread and switched by `chmod`, on
whatever is there by then (`Put`). `OtherProgram` adds or drops a line, or the
crontab, or puts another script there, between any two of these.

**SystemdWriter.** `CreateSteps`, `UpdateSteps`, `DeleteSteps`, `SwitchSteps`
are the plans, in the order of the code; each command has an `Effect` on what
the manager has loaded, on the link and on the running timer. The executor's
actions are reused as they are, so rollback and faults come with them.
`Report` and `TakeBack` are the two ends of `verify_loaded`. A creation may find
a timer of ours in any state of the manager, enabled, disabled, running or not.
An edit writes timer and service anew, so what else a unit held is not modelled.

**LaunchdWriter.** One label, with a plist in any of `Dirs` (`writable_dirs`, in
the order `locate` looks). The requests come one after another, each in the
state the last one left: `Create`, `Update`, `Delete`, `SetEnabled` from the
command line or a form, `Toggle` from the key `t`, which acts on a row but is
carried out on the plist that `locate` finds. `cmds` names the command behind
each change of the executor's plan and `Effect` says what it does to `loaded`
and `override`. A `Login` loads every plist that is not barred. `want` is what
the operator last asked for and got; a request that fails withdraws it, except
that switching off again leaves off what was off. `strayed` marks the two
places where a loaded job and its plist may part: a creation that replaces a
plist of ours without seeing that it is loaded, because `launchctl list`, asked
without privilege, does not name daemons or does not answer at all, and a load
that took effect although it failed, so that the rollback takes the plist away.

**AtWriter.** `jobs` is every job ever queued, by number, with what became of
it; the `line` of a job is that of the job it was edited from, so that "the job
is not lost" can be said over several edits. A session's stages are the dry run,
the checks repeated when the plan is carried out, `at`, and `atrm`. Ids come
from a listing of any earlier time. `loose` collects the new jobs of edits that
ended in an error or were killed. Time is counted in `MIN_LEAD_SECONDS`.

**AnacronWriter.** A line is a job with its period, delay and marker, or
anything else; `spool` is the set of jobs with a stamp. `Create`, `Update`,
`Delete`, `Switch` make `new` out of the `text` read, `Write` puts it in place,
`Drop` removes a stamp, with failures, `Undo` and `Kill` in between; `Stamp` is
anacron itself. Names, periods and delays are what the parser keeps of them, so
the reader (`Shown`) can be asked what the writer wrote. `left` and `theirs`
mark stamps and doubled names for which the operator, or a mutation that did
not end well, is answerable.

**Collector.** `src` and `call` are the position in the row of commands; each
action is one command and its answer, `ok`, `missing`, `failed`, or over SSH
`lost`, a parallel fan-out being one action with an answer for each. `Merge` is
the union of the two inventories of timers, `ShowAll` the batches of `systemctl
show`, whose replies may lack a unit (`Reply`) and are matched by id
(`ApplyShow`). `Report` is the end of `collect`: a lost link anywhere is an
error, a missing source is passed over. The systemd units have the states their
files and the manager give them; `OtherHand` changes one of them meanwhile. Of
a row only `enabled` is kept.

**HostFiles.** One path, one operation after the other. `site` says over what
link, as whom, and with what permissions; `Rendered` is the policy that decides
between running plainly, under `sudo -n`, or not at all, on the cached `root`.
A write makes a temporary file (`MakeTemp`), fills it (`Stream`) and renames it
(`Move`). `LinkBreaks` and `ProcessDies` leave a script behind that goes on by
itself (`adrift`), over SSH or, when the process that feeds its pipe dies, under
sudo on this machine: with the input cut off, it takes the part it has for the
whole, and may still move it into place (`Drift`). A process begins by finding
out who it is (`Detected`): `id -u`, or `$USER` if that fails.

**Schedules, Conversions, JobIds, Editing.** Texts are structure, not
characters: a cron field is a sequence of parts, an id a sequence of tokens, so
that what the parsers look for (a leading `user:`, the last colon, a wrapped
range, a product that does not fit) is there to be found. `Meaning` gives each
text of each source the minutes it fires in, or its interval, straight from the
rules of the scheduler; `ParseSchedule`, `Render` and `Read` are the code's. The
clock is a small one: two seconds to the minute, four minutes to the hour, two
hours to the day, so that a schedule's meaning is a set TLC can compare.
What a file holds is a sequence of rules, one if we wrote it; `Chosen` is the
one that the list shows, `AsRhythm` what the reader takes a rule that fires once
for. A command is what it says and how often `/bin/sh -c` stands before it.
`Editing` follows one job: `Add`, then `Edit` or `Reschedule` by command line
(`Merge`) or form (`ToSpec`), then `Update` through the id, which puts one rule
in place of all and, for systemd and launchd, another shell around the command.

**TuiApp.** `at` is the position in the event loop: `Poll`, `AutoRefresh`,
`Key`. The worker takes a request, works, and answers; an apply has a
beginning and an end with writes half done in between (`torn`), so that
dying in the middle is visible. What keys do to selection, sort
and field texts is left out: it decides only which row or spec is acted on,
and here that may be any.

## 3. The runs

| Run | Instance | What it shows |
|---|---|---|
| `PlanExecutor` | two files, plans of up to 3 steps of every shape, one foreign write, both faults (554,000 states) | `AllOrNothing`, `PrefixOnDisk`, `OutputsAnswerCommands`; it `Terminates`; `ImplementsPlanStack` |
| `Session` | two processes that apply to one file, in 3 seconds, or one at a file, at one of the same flattened name and at a stamp, in 2; or a collection of one of three machines (timers with an alias and a user's, tables, a Mac), two faults and one change; or one path, two operations, two breaks or deaths of the process, one foreign write (1,244,000 states) | `DestroyedIsBackedUp`, `ReadIsBackedUp`; `LostIsNoListing`, `LastingTimersAreListedOnce`, `EnabledIsTrue`; `AbsentIsAbsent`, `WritesAreWhole`, `RootMeansRoot` |
| `CronWriter` | both scopes and a script, two jobs, up to 3 lines and a banner of 2, one foreign edit (742,000 states) | `OneLineWritten`, `ReportedIdNamesTheJob`, `SwitchIsTrue` |
| `SystemdWriter` | a user timer and its service, every mutation from every state (110,000 states) | `SuccessIsInEffect`, `TheirServiceSurvives` |
| `LaunchdWriter` | one agent and one daemon of a label, two requests, a login after each, both faults (900,000 states) | `SuccessIsInEffect`, `LoadedIsOnDisk`, `StaysAsAsked`, `TheirsStayTheirs` |
| `AtWriter` | two sessions, three requests, three instants, both faults (1,055,000 states) | `NoJobIsLost`, `DuplicatesAreReported`, `SuccessIsTrue` |
| `AnacronWriter` | two names, two delays, up to 3 lines, one edit by somebody else, any number of mutations (2,170,000 states) | `NamesStayUnique`, `StampsHaveJobs`, `ReadsBackAsAsked` |
| `Interface` | two row mutations, two form mutations, refresh interval, a worker that may die; or a job of cron, systemd, anacron or launchd: texts of every form, jobs of ours and found ones, some with several rules, edit after edit (62,000 states) | `ReplyBelongsToBusy`, `PopupsMatchMode`, `LockedWhilePlanning`, `WritesAreConfirmed`, `RowsStayUnderPopup`; `BusyClears`, `RowsCatchUp`; `MeaningIsKept`, `UnchangedEditIsAccepted`, `IdsLeadBack` |

Four more runs each violate one statement the repository makes of itself; the
quotes are in `PROJECT.json` under `findings`:

| Run | Violated | Because |
|---|---|---|
| `StampBackup` | whatever an apply removes is copied first | the removal of an anacron stamp is planned without reading it, and only what was read is copied (instance of `Session`) |
| `RemoteWrite` | readers never see a partial file | a connection that breaks, or a process that dies, while the text is sent ends the script's input, and `cat` succeeded with what it had (instance of `Session`) |
| `EditCommand` | an edit keeps what it does not name | the command goes back as the list shows it, `/bin/sh -c` included, and is wrapped again (systemd only, otherwise as `Interface`) |
| `FormEdit` | the form comes prefilled, and Enter plans the change | the name it is filled with, `backup (user)`, is made for reading and refused by `JobSpec::validate` (systemd only, otherwise as `Interface`) |

Divergences seen on the way that have no run (paths by their last part;
`write/` is `shuvjobs-adapters/src/write/`):

*Executor and session.*
* A rollback restores the text of a file but not its mode bits, which no plan
  records: a removed 0600 file comes back 0644 (`manage.rs:407`, against "so the
  executor can put the file back", `manage.rs:286`; `perm` and `RestoredMode`).
* Of two backups within a second, of one file or of two whose paths are
  flattened alike, the second takes the name of the first and replaces it
  (`ops.rs:262`, against README.md:189; the exception `Crowded` in
  `ApplySession`). Crontabs of users and at jobs are changed by commands and
  never backed up.
* `edit` takes a job of which it is not known whether it is enabled for enabled
  (`ops.rs:366`), so an edit of a launchd job that is disabled loads it, against
  "everything unspecified keeps its current value".
* Command line and form disagree on the scope of a job in
  `/Library/LaunchAgents` (`scope_and_user` in `ops.rs`, `scope_of` in `form.rs`).

*Writers.*
* An id of cron is a line number, and only a line that is no job any more is a
  conflict: after a line was inserted above, update, delete and switch act on
  the neighbouring job (`write/cron.rs:446`, against README.md:281).
* `toggle` of the cron writer looks for its marker on the raw line, the listing
  on the trimmed one: a disabled line with leading blanks is listed as disabled,
  and `enable` says it already is enabled (`write/cron.rs:543`, `:553`;
  `CronWriter` has it with "indented" in `Marks`, and `SwitchIsTrue` then fails).
  The anacron writer does the same, and adds a second marker on `disable`, after
  which the job is in no listing ("twice" in `AnacronWriter`).
* A creation over a systemd timer of ours that is enabled or runs does neither
  disable nor stop it with `--disabled` (`cli.rs:136`, "without enabling it"),
  nor restart it on its new schedule otherwise, as an update does
  (`write/systemd.rs:656`, `:744`), and is reported as done (the exception
  `CreatedOver` of `SuccessIsInEffect`).
* An edit puts another shell around the command of a launchd job too
  (`write/launchd.rs:439`, `:577`), and of a plist with both schedule keys it
  keeps `StartInterval` only (`launchd.rs:113`, `write/launchd.rs:457`). A
  command with ` ; ` in it is shown, and written back, up to there
  (`systemd.rs:672`).
* A run-parts script can be deleted although CHANGELOG.md:100 says such scripts
  are refused; `update` and `delete` of a systemd timer take one that does not
  carry the marker (CHANGELOG.md:96).
* An update of a systemd timer is checked neither before nor after it is
  applied, so a typo is reported as a success and leaves a unit that does not
  load (`write/systemd.rs:670`, against the module's own comment at `:18`). The
  stop before a deletion and the restart after an update are advisory, which
  `SuccessIsInEffect` spells out; a creation over a managed unit that then fails
  to load removes the unit.
* A disabled creation of a launchd job writes no override, so the job starts at
  the next login (`cli.rs:136`, "without enabling it"); over a job of ours that
  the listing did not show it leaves the old one running. A failed edit leaves
  its job unloaded. With plists of one label in two directories the interface
  deletes or switches the first, whichever row is selected, and the command line
  refuses the label even with `--source`.
* The anacron writer overwrites what was edited between its reading and its
  write, and a job created under an old name inherits a stamp that was left
  (`left` in `AnacronWriter`). A delay the reader takes may be too wide for the
  writer, a period the writer takes unknown to the reader.

*Interface.*
* The listing does not know of `launchctl disable`, so `t` on such a job
  disables it once more, and no number of presses enables it
  (`shuvjobs-tui/src/lib.rs:457`, against README.md:327).
* A refresh keeps the position of the selection and not the job (`lib.rs:275`),
  and makes every source visible again that the filter bar hid (`lib.rs:708`,
  whose comment speaks of a newly discovered source only).
* A worker that dies while it plans a form leaves the form locked, Esc
  included (`form.rs:326`, "`locked` is set exactly then"; `LockedWhilePlanning`
  holds only while there is a worker).
* Quitting ends a worker in the middle of an apply by `process::exit`, where
  `Worker::spawn` says it is left to finish (`lib.rs:161`).
* `n` or Esc in the popup of an apply that is already under way closes the popup
  and cancels nothing (README.md:347; `ConfirmKey` has it, and
  `WritesAreConfirmed` counts that apply as confirmed); `y` applies a plan made
  anew, which need not be the one on screen.

*Listing and hosts.* `EnabledIsTrue`, `AbsentIsAbsent` and `RootMeansRoot` name
their exceptions, and these are what the code does:
* an alias of a timer is listed as enabled whatever its unit is; a static timer
  of a user as off when only the inventory of files answered, as is a disabled
  one that was started; of several `OnCalendar=` the first is shown;
* whether a script is executable is asked of any of the three bits locally and
  of the owner's over SSH;
* over SSH `exists` says no when sudo refuses to run, and a script in a
  directory it may not look into says the file is absent;
* an `id -u` that failed is cached as "not root" over SSH, and replaced by
  `$USER` on this machine (`local_host.rs:102`).

*Schedules and names.* `MeaningIsKept` and `UnchangedEditIsAccepted` name theirs:
* of a timer the first `OnCalendar=` is shown, or else the first `On...Sec=`,
  which is taken for a rhythm even if it fires once (`OnBootSec=`), and an edit
  of anything keeps that one rule (`systemd.rs:203`, `write/systemd.rs:703`,
  against "Everything unspecified keeps its current value", `ops.rs:348`);
* days `0-7` become `Sun..Sun` in a timer, and `7-3`, which cron does not take,
  `Sun..Wed`; a number of days is multiplied by 86400 unchecked
  (`manage.rs:227`, `anacron.rs:51`);
* `* * * * *` becomes an empty dictionary for launchd, which is shown as an
  empty schedule and cannot be edited afterwards, and so are a timer with an
  interval that systemd shows in months, and one after boot; a `Weekday` of 7
  is shown and then refused;
* `@midnight` is read from a crontab and refused by form and writer; `@reboot`
  typed for systemd is taken for a calendar expression, which leaves
  `TimerRule::Boot` unreachable; `@weekly` is Sunday for cron and Monday for a
  timer; `30m` is accepted for every source and refused by some writers;
* an edit of a job whose file or unit has an unusual name (`x.timer.timer`, an
  instance of a template, `odd:2` in `/etc/cron.d`) is refused by `validate`, by
  the name derived from it.

**Bounds.** The properties of the executor relate at most two file steps and the
commands around them, so two files and three steps show every pair with
something before, between or after; one foreign write falls between any two
steps. In `ApplySession` a second apply in a later, or the same, second, to the
same file by another process or to a file of the same name in the store, is what
could lose a copy: two processes, two names that meet and two or three seconds
have all of them. A crontab of three lines has a line before and after the
edited one, and a second one equal to it; the foreign edit falls between
listing, plan, install and second reading. Two requests on a label show every
operation in every state another one, failed or not, has left; one agent and one
daemon give two domains and a lookup that finds the wrong one, while two agents
in one domain are not in the run. Two sessions at the queue of at can cross in
every way, and the third request finds what they left; three instants have a
time that passes while a session is between its checks and `at`. An anacrontab
of three lines holds both names and a line of either kind between them; one edit
by hand can fall anywhere, and doubled names, wide delays and markers of every
form are in it from the start. A chunk of `show` is two units and there are
three, one of them an alias, so a batch may be cut and a reply may lack its
first or its last unit; two faults are an answer that fails and one that is lost
behind it. Two operations on a path are enough for a script left adrift by the
first to finish under the second. In `Editing` the clock is small, not the
rules: every constant of the code that bounds a field, joins two units or counts
entries has its counterpart, and the texts have each form of part, day 0 and 7,
steps that divide and that do not, and products past the width. Found timers
have up to three rules, in orders that differ in which is shown; found plists
have either key or both. Shells are counted to two (`MostShells`), which is
enough to tell one from more. `CronWriter` may stop at its bound (the length),
so this run does not check deadlock; all others do. `Session` and `Interface`
hold parts that share no state: a behaviour is of one of them, and the others
rest.

**Fairness.** `PlanExecutor`: weak fairness of the executor's own steps; it is
a plain loop over calls that return. `TuiApp`: weak fairness of the event loop,
which never waits longer than its poll timeout, and of the worker, which holds
as long as host calls return. Over SSH nothing bounds a call, no timeout is
among the options, so `BusyClears` and `RowsCatchUp` say nothing of a link that
hangs. Nobody has to press a key.

## 4. What is proved

Every theorem is about the specification that the runs check, with nothing
assumed of the constants but the named assumptions of its module, unless its
statement says so. No property here is inductive as it stands: most speak of a
run that has ended and say nothing of one under way. What each proof adds is
the invariant that does.

**The executor** (`PlanExecutor_proofs`), for any files, contents and modes,
plans of any length, any faults and any number of foreign writes:
`TypeCorrect`; `AllOrNothingHolds`, `PrefixOnDiskHolds` and
`OutputsAnswerCommandsHolds` (the properties of these names are invariants);
`PlanStackImplemented`: `Spec => Stack!SSpec`. The assumptions are that plans
are sequences of changes without two steps on one file (`PlansAssumption`) and
that `Absent` is no text (`HostAssumption`). The invariant is

    IInv == TypeOK /\ OnDisk /\ AppliedIsPrefix /\ Endings

`OnDisk`: a file step nothing excuses has its new contents on disk if it is in
`applied`, and its old contents if not; files no step names are as they were.
`AppliedIsPrefix`: while the plan runs, `applied` is exactly the file steps
before `next`, and during the rollback a prefix of those. `Endings`: an error
has an empty `applied`, a success a complete one. Distinct paths are what makes
a write to one step's file leave the others' alone, and newest-first is what
keeps `applied` a prefix. The refinement follows from it step by step: what is
in force, which the mapping reads off the disk, is what is in `applied`
(`ForceIsApplied`), so a file step pushes the lowest that waits, an undo pops
the highest, and a fault or a foreign write sets a change aside. For the outputs
`Answering` says that there is one for each command gone past, in order.

**The systemd writer** (`SystemdWriter_proofs`), for any timer and service, in
either scope, from every state of the files and the manager:
`TheirServiceIsSafe`, `SystemdAllOrNothing` and `SystemdSuccessIsInEffect`.
A request is a run of the executor, so `IInv` is used again step by step;
`TakeBack`, the check after a creation that removes what it made, is the only
step the executor does not know, and why all-or-nothing has an exception here.
A first group of lemmas is about the plans: each is laid out in an order `After`
allows (`LaidOut`), has the steps its request calls for (`Complete`), and names
a service only where it may be written (`Fitting`). The invariant adds

    EInv == UInv /\ Answering /\ Answered

of which `UnderEffect`, in `Answered`, is what the commands passed so far have
brought about and the later ones leave as it is: `reload` has loaded what is on
disk, and all writes are behind it. What a creation finds running or enabled
stays so unless `enable` changes it, which is why the theorem excepts a creation
over a timer of ours by name (`CreatedOver`). It is assumed that a file of
somebody else's differs from ours (`SystemdAssumption`), which is what the
marker is for.

**The launchd writer** (`LaunchdWriter_proofs`), for any number of plists in any
directories, any requests one after the other, faults, kills and logins:
`LoadedIsOnDiskHolds`, `StaysAsAskedHolds`, `SuccessIsInEffectHolds`, and the
action property `TheirsStayTheirsHolds`. Each request starts the executor anew
on the files as they are, so `IInv` holds over all of them. The invariant is

    LInv == IInv /\ Types /\ Guarded /\ LoadedIsOnDisk /\ OnPath /\ Achieved /\ Held

`Types` has in it the shape the plans share (`Shaped`): at most one file,
written after any `bootout` and before any `bootstrap`, which is the last
command and may not fail. `Guarded` is why that order matters: while a plist may
still be changed, or changed back, its job is not loaded. `OnPath` and
`Achieved` follow one request; `Held` says what keeps a job down or up until it
is asked for again: the override database, or a plist that may be loaded.

**The at writer** (`AtWriter_proofs`), for any sessions, and any bounds on the
clock and the requests: `TypeCorrect`, `NoJobIsLostHolds`,
`SuccessIsTrueHolds`, `DuplicatesAreReportedHolds`. The invariant is

    IInv == TypeOK /\ SessionsOK /\ NoJobIsLost

`SessionsOK` says what a session knows when it is about to remove: an edit has
queued a newer job of the same line, and its number is the one it read. That is
why the job `Remove` takes away has a successor, and the successor cannot be
gone: it is pending, has run, was deleted on request, or was replaced in its
turn by a newer one, of which the newest is not replaced. `Grown`, a property of
every step, says that jobs are never renumbered, rescheduled or revived, which
is what keeps the facts of all other sessions true. For the duplicates
`Accounts` counts, for each line, its live jobs against those of failed edits
and of edits under way; each of these edits has queued a number of its own,
which no failed edit has (`Fresh`). The set of sessions may be infinite: only
finitely many edits are under way at a time, and that is part of the invariant.

**The anacron writer** (`AnacronWriter_proofs`), for any names, delays,
schedules and lines, files of any length, and any number of mutations, failures,
kills and edits by others: `AnacronTypeCorrect`, `AnacronNamesStayUnique`,
`AnacronStampsHaveJobs`, `AnacronReadsBack`. What is in the file next is what a
plan was made of or what a rollback puts back, so the invariant says of all
three that a name on several lines is the operator's:

    IInv == TypeOK /\ Pending /\ Unique(Body(file)) /\ Unique(text) /\ Unique(new)

The lemmas say what each edit of a text does to the names on several lines:
appending a line whose name no line has, replacing one by a line of its own or
an unused name, dropping one. Disabled lines count in `Taken`, and that is what
the second of these needs. `Owned` is the same for stamps: a plan takes out of
the text no job but the one whose stamp it drops, and that one is in the text a
rollback puts back. `AnacronReadsBack` is a matter of one step, `Plan`, and of
what rendering and parsing a line do to each other.

**The cron writer** (`CronWriter_proofs`), in any scope, for crontabs of any
lines, any banner, any run of mutations and failures and any number of edits by
others: `OneLineWrittenHolds`, `ReportedIdHolds`, `SwitchIsTrueHolds`. They are
about steps, and what they need of the state before one is

    IInv == ... /\ Proper(Text(file)) /\ Proper(seen) /\ AskedFor /\ Planned

`Proper`: a per-user crontab that is not empty has its banner once and on top,
and no other text has a line of it. That is why taking the banner off and
putting it back is no edit (`BodyUnderBanner`), and why an edit above or below
taking it off is the same edit (`ReplacedBelow`, `RemovedBelow`,
`AppendedBelow`): the line numbers of the listing count the banner, what is
handed to `crontab -` does not have it. `Planned`: a plan that was not refused
has the job it is about on its line, below the banner, in the text it was made
from, whatever the crontab is by now. `EditFacts` puts these together: what is
planned is the other lines with one more. `SwitchIsTrueHolds` has a hypothesis,
that nobody writes blanks before a marker; the divergence it excludes is the
second of the writers' in section 3. `GoneAssumption` says that no crontab is
none.

**The session** (`Session_proofs`, first part), for any number of processes and
of other programs' writes, any files, versions, seconds and runs, and any
flattening of paths: `NothingIsLostForGood` and `ReadIsBackedUpHolds`, with

    IInv == TypeOK /\ StoreIsLog /\ ReadIsLogged /\ LostIsLogged

`StoreIsLog`: every backup that was made is where it was put, or another one of
that second and name took its place. `ReadIsLogged`: what the first plan read of
a file is in a backup as soon as that file is no longer to be backed up; it
stays so over the second plan, which may be about other files. What is destroyed
and was there at the first plan is therefore in a backup that was made before
(`LostIsLogged`). Stamps are excepted, since no plan has read them. Nothing is
assumed of the processes, of when they run or of the names.

**The interface** (`Interface_proofs`, first part), for any rows and forms, with
or without a refresh interval, and with a worker that may die: `TuiTypeCorrect`,
the invariants `ReplyBelongsToBusyHolds`, `PopupsMatchModeHolds` and
`LockedWhilePlanningHolds`, and the action properties `WritesAreConfirmedHolds`
and `RowsStayUnderPopupHolds`. They need each other:

    IInv == TypeOK /\ OneInFlight /\ PopupsMatchMode /\ LockedWhilePlanning
              /\ BusyInPopup /\ Confirmed

`OneInFlight`: there is at most one request in the two channels and the worker
together, and `busy` has its kind. `BusyInPopup`: behind a form there is nothing
but its plan, behind the confirmation nothing but its apply; so a reply finds
the mode it was asked in. `Confirmed`: the apply under way is the operation
whose popup was answered with `y`.

**Hosts and collection** (`Session_proofs`, the other parts): of `HostFiles`,
for every kind of host, any texts and any number of operations, broken links,
dying processes and writes by others, `FilesAreWhole`, `RootIsNeverFaked` and
`AbsenceIsTrue`; of `Collector`, for any machines, units, chunks and faults,
`LostLeavesNoListing`. The first rest on

    HInv == Types /\ Probe /\ Staged /\ Parts /\ WritesAreWhole /\ RootMeansRoot

`Probe`: the cached answer of `id -u` is right, unless the probe failed or
`$USER` misled (`Misled`). `Staged`: an operation past its policy has a cached
answer to go by, one past its first look was neither refused nor turned away by
sudo, one that has a temporary file made it as who it runs as, and nothing is
answered before the end. `Parts`: a part of a text is beside the path only while
it streams, and on its own or at the path only after a script lost what fed it;
before the rename all of it is there. The last rests on `Remembered`: a loss is
in the status of the source that suffered it until the report, and no later
source writes there.

`EnabledIsTrueHolds` and `LastingTimersAreListed` of `Collector` hold for any
machines (`MachinesAssumption`: finitely many jobs, and no crontab line has the
path of a script for its id), any finite set of units, any chunk size and any
number of faults and changes. They share

    CInv == Remembered /\ Typed /\ Truths /\ SystemdRows /\ ListingIsShown

`Truths` ties the history to the machine: what the manager would say now is in
it, and every timer that stayed still has its file. `SystemdRows` is about the
rows while they come in: each unit has at most one (`Merge` leaves out what is
there, and the listing of the user's manager can name none of the system's);
each says nothing, or what was true, or what the inventory of files says of an
alias or of a static timer; and past the commands of the two inventories every
timer that stayed has a row, unless that command failed. For `ShowAll`,
`Covered` says that the chunks cover what is listed, and `ApplyShowFacts` that a
row changes only by the block with its id, and that a static timer without its
block is a failure on record. `ListingIsShown` takes all that into the listing.

**Schedules, names and edits** (`Interface_proofs`, second part), for any texts,
paths, names, users, line numbers and jobs on the machine, and for any clock:
`MeaningIsKeptHolds`, `UnchangedEditIsAcceptedHolds`, `IdsLeadBackHolds` and
`EditingTypeCorrect`. That the clock is any makes the small one of the run an
instance, and the real one, with its 60, 60 and 24, another. The assumptions say
what a text, a file and a place are and nothing of what comes of them: a number
in a text is a number and a field has at least one part (`TextsAssumption`), a
file holds one or more rules its reader can return, of whatever number
(`JobsAssumption`), a place is one the readers report, and a new one is not a
script (`TargetsAssumption`), no number is a separator (`NumbersAssumption`),
and a week of seconds fits (`ClockAssumption`). The invariant is

    EInv == JobIsPlaced /\ JobOfOursIsFine /\ MeaningIsAgreed /\ PlanIsFine
              /\ UnchangedEditIsAccepted

`MeaningIsAgreed`: either the file holds the very rules that were found or asked
for, or one rule, which means what one of those means, taken for a rhythm
(`OneStands`), up to a timer's days with 7 and to days that wrap, which in the
file wrapped in the text too; and where several rules were asked for, or one
that fires once, they are such as a reader finds (`AskedFor`), so neither of
these two exceptions hides behind the third. `ShownStands` is the step to the
list: the rule it chooses is one of them. `PlanIsFine` is why the next step
keeps it: whatever the writer will make of the planned schedule means what one
of the rules asked for does. `JobOfOursIsFine`: the name could be checked and so
can the command, however many shells are around it, and the file holds the one
rule that a writer leaves there (`Canonical`), which the reader shows and the
writer takes (`WritesAgain`), unless it is shown as nothing.

Under it lie three arguments about the operators themselves. Ids: the last colon
is the one that was put there, since no number holds one (`LastSplits`), and
what looks like a script is one. Meanings: an interval cron can express fires
with the clock (`IntervalMeansTheSame`), which is division with remainders for
minutes, hours and the day; a timer and the dictionaries of a plist fire when
the fields they came from would (`TimerFiresLikeCron`, `PlistFiresLikeCron`),
field by field and, for the dictionaries, as a product of the values of four
keys. Readers: the units systemd displays add up (`UnitsAddUp`), and what is
read is shown, and written again, with its meaning (`ReadMeansTheSame`).
`TypedMeansTheSame` puts them together, one source at a time. No induction is
needed, since every conversion works on the parts of a field one by one.

**Model-checked only.** `Terminates`, `BusyClears` and `RowsCatchUp`, as
liveness under fairness, are beyond the prover. `StampsAreBackedUp`,
`NeverPartial`, `CommandIsKept` and `FormEditIsPlanned` do not hold. Every other
property of the runs is a theorem.

## 5. Not modelled, and the plan

Left out for good: argument parsing, rendering, drawing, colours, JSON reports,
sorting and filtering of the view (`cli.rs`, `export.rs`, `view.rs`, the drawing
half of `shuvjobs-tui`): pure functions of a listing, from which nothing is
written. Times of next and last runs, durations and results in the readers
(`croner`, time zones) are shown and used for nothing else. The making and
listing of directories, and the processes behind `run`, appear in the writers'
modules as their outcomes. The SSH master's socket and its teardown are a matter
of `ssh`.

Next, most important first:

1. The selection and the filter of the interface over refreshes, composed with
   `TuiApp`.
2. `execute` over `HostFiles` instead of over its own faults, so that a write
   cut off half way meets the rollback.
