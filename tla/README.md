# A TLA+ model of simet-lmapd

lmapd is the LMAP measurement agent daemon of SIMET: it runs *tasks* (child
processes) when *events* fire, keeps *suppressions* from letting them run, and
moves the results of one schedule into the queue of another. This directory
models the daemon's own logic, the control program's dealings with it, and the
formats the two and their tasks exchange, in TLA+; it checks the models with
TLC on small instances and proves the main invariants with TLAPS.

Paths below are relative to the repository (`src/runner.c` is the C file).

## 1. The system

| component | state | operations | interacts with |
|---|---|---|---|
| **runner** (`src/runner.c`, `src/signals.c`) | state, suppression counter and flags of every schedule and action, pid and last status of every action, state of every suppression | `fire_cb` = `suppress_cb` + `execute_cb`; `lmapd_cleanup`; `lmapd_restart`, `lmapd_stop` | children (fork, SIGTERM to the process group, `waitpid`), workspaces, timers, operator (signals) |
| **event timers** (`src/runner.c`, `src/data.c`) | per event: `start_event`, `trigger_event`, `fire_event`; `lmapd->flags` | `lmapd_run`, `startup_cb`, `trigger_periodic_cb`, `trigger_calendar_cb`, `fire_cb` | libevent, the clock, `lmapd_restart` |
| **workspace and queues** (`src/workspace.c`) | per action a directory with results; per schedule an active directory and an `_incoming` one | `action_move`, `action_clean`, `schedule_move`, `schedule_clean`, `workspace_clean`/`init`, the `.meta`/`.data` writers and readers | called by the runner; read by the tasks |
| **daemon life cycle** (`src/lmapd.c`, `src/signals.c`, `src/pidfile.c`) | pid file, configuration, restart flag | start, reload loop of `main`, stop, state report | operator, runner |
| **control program** (`src/lmapctl.c`) | none | clean, config, reload, report, running, shutdown, status, validate, version | sends signals, reads pid and state files and queues |
| **data model** (`src/data.c`) | the configuration tree | constructors, setters, validity checks, look-ups | all |
| **csv, json, xml, io** (`src/csv.c`, `src/*-io.c`) | none | parse and render | data model |

What is hard here:

* everything happens in callbacks of one event loop, but children exit at any
  moment and their SIGCHLDs coalesce; a callback forks, kills and reaps
  several children, and each of these can fail on its own;
* the state of a schedule is spread over five fields that different callbacks
  write: a suppression may begin and end while the schedule runs, several
  suppressions overlap, events are shared between start, end and suppressions;
* results are handed over by pairs of `link`/`unlink` calls between which the
  daemon may die, in the order of `readdir`;
* a reload forgets children, timers and states but not files nor flags;
* timers interact with random spreads, end times, a late loop, and reloads;
* the pid file is all that keeps two daemons apart and all that `lmapctl` knows
  of one; it is read and written in several steps, survives crashes, and pids
  are reused; signals have handlers only while an event loop exists;
* a configuration is spread over files that are read in the order of `readdir`
  and refer to each other; two parsers and two renderers, each with its own
  tables, have to mean the same;
* the records about a run go through a CSV dialect that quotes, unquotes and
  splits by its own rules.

What makes the parts correct: suppressions are counted right and prevent runs;
nothing stays RUNNING without a child; pids belong to one action; a sequential
schedule runs one action at a time; results are neither lost nor processed
twice, and only complete ones are processed; a trigger is neither lost nor
doubled; what is pending is done in the end; the pid file names the daemon
that serves; a reload is applied or ends the daemon; a configuration means the
same in whatever format and order it is read; what is recorded about a run is
what the report says. Section 3 lists the properties.

## 2. Modules and how they correspond to the code

| module | models | variables ↔ code |
|---|---|---|
| `Runner` | `runner.c` callbacks and what they call, signals SIGCHLD, SIGHUP, SIGUSR2 | `sState`, `sCnt`, `sStop` ↔ `schedule->state`, `cnt_active_suppressions`, `LMAP_SCHEDULE_FLAG_STOP_RUNNING`; `aState`, `aPid`, `aCnt`, `aOk`, `aDefer` ↔ `action->state`, `pid`, `cnt_active_suppressions`, `last_status == 0`, `LMAP_ACTION_FLAG_MOVEDEFERRED`; `uState` ↔ `supp->state`; `proc`, `term`, `signals` ↔ the kernel's processes and pending signals; `phase`, `ev`, `todo` ↔ where the event loop is; `armed`, `flags` ↔ timers, `lmapd->flags`; `aWs`, `incoming`, `active` ↔ directories; `child` is a history variable, the action each process was forked for, which a reload does not forget |
| `RunnerClaims` | nothing new: a property that documentation states and the code does not have | |
| `MCRunner` | configurations of `Runner` for TLC | |
| `RunnerProofs`, `RunnerDataProofs` | theorems about `Runner`: its control, and the results it moves | |
| `EventSource` | abstract: what `Runner` assumes about an event | `armed`, `fires`, `once` |
| `Events` | the timers of one event | `start_event`, `trigger_event`, `fire_event` ↔ the fields of `struct event` (the second they are due); `startupDone`, `skipStartup` ↔ `lmapd->flags`; `conf` ↔ the configured fields |
| `MCEvents`, `EventsProofs` | configurations, theorems | |
| `Queue` | the queue of one schedule, one system call per step, with crashes, reloads and failing calls | `incoming`, `active` ↔ the files in the two directories; `op`, `list`, `cur` ↔ where the daemon is in its loop; `consumer`, `orphans` ↔ the run of the schedule, and the ones the daemon has forgotten; `processed`, `failed`, `crashes`, `reloads` count what happened |
| `Mailbox` | abstract: what a queue promises to the runner and to the tasks | `accepted`, `held`, `running`, `batch`, `strays`, `done` |
| `QueueProofs` | theorems about `Queue` | |
| `Daemon` | `main` of `lmapd.c`, `pidfile.c`, `signals.c`, the commands of `lmapctl.c` that signal a daemon; several processes, one run directory | `proc` ↔ where in `main` the process with this pid is; `pidfile`, `status` ↔ the two files of the run directory; `pending` ↔ signals libevent caught and has not dispatched; `restart` ↔ `LMAPD_FLAG_RESTART`; `config`, `loaded` ↔ the edit of the configuration on disk and in memory; `kids` ↔ running and unreaped children; `ctl` ↔ the `lmapctl` command in progress |
| `DaemonProofs` | theorems about `Daemon` | |
| `Config` | `read_config`, the directory loops of both parsers, the `lmap_add_...` functions and `lmap_valid` of `data.c` | `docs` ↔ the files; `lists`, `agent` ↔ the lists and the agent of `struct lmap`; `path`, `unread`, `rest` ↔ how far reading is |
| `MCConfig`, `ConfigProofs` | small sets of files, theorems | |
| `LmapData` | the setters of `data.c`: per leaf the texts it reads and what it stores; lists of tags, values, bits and objects | an object is a function from its leaves to sequences |
| `ParserTables` | the tables of the parsers of `json-io.c` and `xml-io.c`: which field sets which leaf, in which kind of document, and the filters | no state |
| `LmapDataProofs` | theorems about the two parsers, taken apart into setter calls | `top`, `what` ↔ the kind of object and of document; `read` ↔ the objects of each kind that were made so far, as pairs of what JSON and XML made of the same fields |
| `JsonIO`, `XmlIO` | what the parsers do with the tables, and the renderers | no state |
| `Documents` | one object read field by field by both parsers and rendered by both renderers | `doc`, `json`, `xml` ↔ the fields so far and what each parser made of them |
| `Csv` | the loops of `append` and `csv_next` of `csv.c`, turn by turn | a record with the position, `buf`, `quoted`, `feof` ↔ the local variables of `csv_next` |
| `CsvProofs` | theorem about a field that is written and read back | `text`, `end`, `rest` ↔ the field, what the caller writes behind it, the rest of the file; `file`, `r` ↔ what is written, the reader |
| `Results` | the `.meta` and `.data` files of a run, written (`workspace.c`) and read back (`read_result`, `read_table`), on top of `csv.c` | `meta`, `data` ↔ what is left to read of the two files; `res`, `opt`, `tab` ↔ the result, the option and the table under construction |
| `MCResults` | the configurations and tables that are written | |

**Steps of `Runner`.** `fire_cb` takes one step `Fire`, one step per
suppression concerned (`SuppressionStart`, `SuppressionEnd`, in list order,
start before end, as `suppress_cb` walks the list), and one step `ExecuteCb`
for all schedules; only children's exits can come in between. `ExecuteCb`
includes all that `execute_cb` calls: `lmapd_workspace_schedule_move`, the
cleaning of the workspaces, the forks, and `schedule_kill` of the schedules
that end. `lmapd_cleanup` is `SigchldCb`, one `Reap` or `ReapUnknown` per
`waitpid`, and `CleanupDone`. `Reap` includes the move or deferral of the
results, the early cleaning, the start of the next action, the new state of
the schedule, the deferred moves and the cleaning of the queue. A reload is
`SighupCb` and `ReloadDone`, between which children may exit unnoticed.

**Steps of `Daemon`.** Starting is `ReadPid` (refuse or go on), `OpenPid` (the
file is truncated) and `PrintPid` or `PrintPidFails`; another process may do anything in between.
The loop of `main` is `ReadConfig`, `Run`, the callbacks of the event loop,
`LeaveLoop` (the handlers are removed and what was caught is dropped) and
`Again`. Exiting is `ExitCheck` and `ExitUnlink` of `atexit_cb`. A command of
`lmapctl` is `Ask` (read the pid file) and `Send`; `status` then waits and reads
(`ReadState`). `Crash` can come anywhere, `Reuse` gives a free pid to an
unrelated program. `unguarded` and `unwritten` are history variables; no guard
reads them.

**Steps of `Queue`.** A delivery is `ActionMove` and one `DeliverFile` per file.
A start of the schedule is `ScheduleMove`, then per `.meta` file `ScanEntry`,
`LinkData`, `LinkMeta`, `UnlinkMeta`, `UnlinkData`, then `RunConsumer`. Its end
is `ConsumerExit` and one `PurgeFile` per file of the active directory. Every
link and every unlink may fail: the second link (then the first is rolled back,
which may fail too), one or both unlinks of a move, the unlinks of
`schedule_clean`. `Crash` can come anywhere, `Reload` between two callbacks.
Both leave the active directory as it is and forget the run, whose child lives
on until `OrphanExit`: it reads its input and succeeds, or not, at any later
time, and nobody cleans behind it ("ignoring pid").

**Steps of `Config`, `Documents`, `Results`.** One step per file and per object
of a file; one step per field of an object; one step per record of a `.meta`
file and per field of a `.data` file, as the loops of the code do.

**Data.** A result is represented by the action that made it. In `Runner` a
queue is a set of such results, and moving it is one step; `Queue` opens that
step up into its system calls and lets the daemon die between them. Task
names, arguments, programs, and capabilities are reduced to `Runnable`: the
actions that get past the checks of `action_exec`. Glob patterns and tags are
kept as a relation `Fnmatch`. Counters that are only reported
(`cnt_invocations`, `cnt_overlaps`, ...) are left out. In the documents a text
is a member of a small set that has, for every setter, texts it accepts,
changes (leading zeros, other time zones, numbers out of range) and refuses;
what is stored is the text the renderers print for it. Three texts are there for
the XML renderer: `xmlNewChild` escapes a `<` but takes a `&` for the beginning
of a reference, so that `&lt;` is read back as `<` and a text with a reference
that does not resolve is lost (`XmlRefs`, external). In `Results` a text is a
sequence over the characters `csv.c` tells apart: the delimiter, the quote, the
newline, a blank, and two others. Whole keys and numbers are one character.

**Assumptions on the world.** `link()` of an existing name fails. File names of
results are unique (they hold the start time in seconds, schedule and action).
In `Queue` a delivery is a result of its own: if the producer's workspace cannot
be cleaned and the same file is delivered again later, that is another result.
In `Events`, whether `fire_cb` starts a schedule is a free choice at each firing
(its schedules may be suppressed or still running, which is `Runner`'s part); time is one clock in seconds that is never set; libevent runs due timers in the order they are due, and a
persistent timer keeps its period unless it missed a whole turn. In `Daemon` an
open, a write and an unlink of a small file are one step each; an unrelated
process that gets a signal by mistake is ended by it.

## 3. Runs

### Passing runs

| run | instance | checks |
|---|---|---|
| `chain` | sequential schedule of two actions feeding a parallel one and itself; two overlapping suppressions (one with stop-running) that share events with each other and with a schedule's start; three pids; forks fail | `SuppressionCount`, `SuppressedWhileActive`, `RunningHasChild`, `SequentialOneChild`, `DeferredPending`, `NoStartWhileSuppressed`, `TypeOK` |
| `boot` | startup, immediate, one-off and periodic events; sequential, parallel and pipelined schedules; one reload, after which terminated children may live on; the sequential schedule feeds itself; `lmapctl clean` at any time; two pids, so that pids are reused at once; forks fail | `PidsOwned`, `InputStable` |
| `live` | `chain` without suppressions, fair | `RunEnds`, `ZombiesReaped`, `DeferredDelivered` |
| `queue` | two results, one crash, one reload, per result one failing unlink of those counted in `failed`, links and single unlinks of a move failing at any time, fair | `NoLoss`, `ProcessedOnce`, `ActiveComplete`, `ImplementsMailbox`, `ReceivedProcessed` |
| `life` | two pids, three starts, two commands or interrupts, one edit of the configuration, crashes, reused pids, failing files | `ServingIsNamed`, `RemovedByOwner`, `StatusAnswered`, `TypeOK` |
| `reload` | one pid, two starts, three commands, one edit, children that start and exit at any time, fair | `ReloadApplied`, `ZombiesReaped` |
| `config` | every way to put 14 awkward entries (duplicates, missing names, dangling and mutual references, contradicting leaves) or an unreadable part into three files of two paths, and every order of `readdir` | `UniqueNames`, `OrderIrrelevant` |
| `docs` | 11 kinds of objects, in configuration and in state documents, with a name and up to two other fields in any order, each with every sampled text and JSON type | `FormatsAgree`, `JsonRoundTrip`, `XmlRoundTrip`, `ConfigSetsNoState`, `ObjectsWellFormed` |
| `csv` | all combinations of awkward texts in names, tags and options; all tables of up to two rows of up to two awkward fields | `MetaReadBack`, `TableReadBack` |
| `timers` | all kinds of events with intervals up to 3 s, spreads up to 3 s, starts and ends before, at and after the daemon's start; a calendar with a change of day, weekday and month; 11 s; two reloads; callbacks up to 1 s late | `NoTriggerDropped`, `PeriodicOnGrid`, `QuietAfterEnd`, `StaysArmed`, `CalendarEverySecond`, `StartupOnce`, `ImplementsSource`, `TypeOK` |

*Bounds.* The counters and states of different schedules only meet in shared
events and pids, and those of one schedule in its own actions: two schedules,
two suppressions that can overlap in every order, and two actions per schedule
make every pair of interacting objects occur. Three pids let every action of
`chain` have a child while a fork still fails or succeeds; two pids in `boot`
force reuse and make orphans of the old configuration compete with new
children. In `queue` a crash, a reload and a failing unlink of the same result
can follow each other in any order, so that the recovery from one meets another;
each of them leaves at most one more copy of a result, which the proof shows for
any number of them. Two results are needed so that the failure of one (which ends the scan) can
harm another. Intervals, spreads and times around each other, at distance 0, 1
and more, cover the comparisons of the timers; 11 s cover at least three turns
of the longest interval and all of the calendar's boundaries. `timers` turns
the deadlock check off because the clock is bounded. Pids are symmetric in the
safety runs of `Runner`; `live` uses no symmetry.

A third start in `life` makes a refused start meet a dying daemon and a reused
pid at once; two commands let one overtake what the other caused. `reload` has
one process because another one does not touch its signals or children, three
commands so that a reload meets another reload and a stop, and two zombies, one
of which exited without a handler. In `docs` a field acts on the object through
its own leaf, or through one other leaf it excludes or replaces, so that two
fields besides the name make every interaction occur; 269,486 states are
reached. In `config` one reference needs two objects, and a duplicate or a
contradiction one more to be seen to matter; the verdict is about pairs. In
`csv` damage runs from a field to the next one or to the next row at most,
which two rows of two fields show.

`config`, `docs` and `csv` turn the deadlock check off because reading ends,
`life` and `reload` because starts and commands are bounded.

*Fairness.* `Runner`: callbacks run to their end (they never block on a
child); a pending SIGCHLD is handled however often timers fire in between
(strong fairness of `SigchldCb`: libevent's signal event stays active until it
is run); tasks terminate, by themselves or after SIGTERM. Events need not
fire. `Queue`: the daemon goes on with the loop it is in; the schedule is
started again and again (its event is periodic); `link()` and the task do not
fail for ever. Crashes, reloads and the failing unlinks that leave something in
the active directory are bounded, so no fairness has to exclude them.
`Daemon`: a process that can go on does; a signal that was caught is dispatched
(libevent runs all active events before it polls again); `event_base_new` does
not fail for ever (strong fairness of `Run`); schedules keep starting actions
and actions come to an end, without which a child that exited between two event
loops stays a zombie. Nothing is assumed of operators, and crashes are never
required. In `Daemon` `ReloadApplied` counts the end of the daemon as an
answer, since the code ends it when the new configuration is unusable.

What some of the properties show, in words:

* `ImplementsMailbox`: seen through its complete results, a queue accepts a
  result once, holds it until a successful run has found it, and does not change
  what a run finds until that run ends or is forgotten, whichever call fails,
  wherever the daemon dies and whenever it reloads. A run need not find all that
  is held.
* `ProcessedOnce`: a result is processed by at most one successful run, plus one
  for each crash, each reload and each failure counted in `failed`: an unlink of
  the result in the active directory (by `schedule_clean` or by a rollback), or a
  move that could unlink neither file from the queue. So the order of links and
  unlinks (`workspace.c:387-411`) is enough for every failing link and for a
  single failing unlink of a move, and not for the others.
* `ActiveComplete`: as long as the daemon has not crashed, a run finds half a
  result only if an unlink counted in `failed` has left that half. A failing
  link, a single failing unlink of a move and a reload do not.
* `StartupOnce`: once a startup event has started a schedule, it does not fire
  again, however often the daemon reloads.
* `CalendarEverySecond`: an event without timezone-offset triggers in each second
  it is configured for, from its start time on, and in no second it is not
  configured for. What happens before the start time is left open.
* `XmlRoundTrip`: a printed object is read back as it was *exactly* if none of
  its texts has a `&`.
* `ServingIsNamed` holds through reloads, refused starts, crashes and reused
  pids as long as no two start-ups overlap between reading and writing the pid
  file (`unguarded` records that), and the file could be written. Without that
  premise TLC shows two daemons serving after `lmapd.c:408-413`.
* `StatusAnswered`: once the handler has run, the status file is whole and newer
  than the request. Before that `lmapctl status` may read an old, empty or half
  file, since it only takes a nap of 87 ms (`lmapctl.c:487-492`).
* `OrderIrrelevant`: unless two definitions contradict each other, the order of
  the files changes neither the objects nor the verdict.
* `FormatsAgree`: what the JSON parser accepts, the XML parser reads as the same
  object. (The XML parser accepts more: it skips what it cannot read.)
* `ObjectsWellFormed`: a parsed schedule has an end or a duration, never both,
  and lists hold no tag twice, no key twice and no object without its key.
* `InputStable`: while a schedule is in use, its active queue gets nothing new
  except what a sequential schedule delivers to itself, and nothing except
  `lmapctl clean` removes anything from it. In use (`InUse`) means that one of
  its actions has a child the daemon knows, or that a child of one of its actions
  is alive and was not told to stop, known or not; `child` records that across
  reloads. Schedules that feed themselves and are not sequential are outside the
  first half (`Documented`, see the limits).
* `TableReadBack` says *exactly* which tables survive: no field empty, with a
  newline or with a quote at its beginning, and no field that needs quotes at
  the end of a row other than the last.

### Runs that refute a statement

Each of these checks one property that a document states.

* `stop_false` — `ietf-lmap-control` says of stop-running = false that running
  schedules "will not be affected". `suppression_start` tests
  `LMAP_SUPP_FLAG_STOP_RUNNING_SET`, which is set whichever value is
  configured: TLC shows a running action that is sent SIGTERM when such a
  suppression begins.
* `one_off` — `lmapd_run` skips one-off events that are in the *future* and arms
  those in the past.

### Observations

Behaviour of the code that the models reproduce and that a reader may not
expect. No run is about them.

* `LMAP_SCHEDULE_FLAG_STOP_RUNNING` is never cleared (`runner.c:469`): after one
  suppression with stop-running each later run of a sequential schedule stops
  after its first action.
* The input queue is cleaned if *some* action's last status is 0 (`|=`,
  `runner.c:687`), where the comments say "none failed".
* An action that is running when a suppression of it begins is set to ENABLED
  when it is reaped (`runner.c:610`), and its next run starts it under the
  active suppression. Schedules get this right: `SuppressedWhileActive`.
* The end event terminates the running action of a sequential schedule, and the
  schedule goes on with the next action (`runner.c:797`).
* A startup event whose schedules were all suppressed, or running, when it fired
  does not set STARTUPDONE (`runner.c:764-792`) and fires again after a reload;
  `README.simet-lmap.md:11-12` says "just once (when LMAPD starts)".
* A parallel or pipelined schedule that has itself as destination delivers to
  its active queue at once, too (`workspace.c:562-570` does not look at the
  mode), under the feet of its other actions; items 4 and 5 of the dataflow in
  `README.simet-lmap.md` make this exception for sequential schedules only.
* A reload sends SIGTERM to all children and forgets them. One that does not end
  at once still reads the active queue, which the next run of the schedule may
  fill and clean, and its input is not cleaned when it succeeds.
* Texts are given to `xmlNewChild` unescaped (`xml-io.c:1794`): a `&` in one, as
  in a URL, is not printed back. JSON escapes texts.
* Between two event loops, that is during a reload, signals have their default
  disposition: a second SIGHUP ends the daemon. A SIGTERM that is caught
  together with a SIGHUP may be dropped when the loop is left.
* Objects without a name and second definitions of a name are dropped silently;
  of contradicting definitions the first one read wins, of contradicting leaves
  of the agent the last.
* The end of a schedule is cleared by a duration that is then refused, and the
  other way round. Durations saturate at 2^64-1, and "-1" is taken for that.
* The task of a capability cannot have a `function` in JSON: the registry
  object is parsed with the flags of state, which filter its `uri`
  (`json-io.c:366`, `:486`), and the document is refused.
* A text in a CSV file loses the quotes it begins with; an empty field ends the
  row; a quoted field at the end of a row swallows the newline and joins the
  next row to it, after which the rows differ in length and the whole result is
  left out of the report. Of two options of task and action with the same id
  the second is dropped.

## 4. Proofs

The theorems hold for every value of the constants that satisfies the
`ASSUME` of the module: `ConfigAssumption` of `Runner` (a well-formed
configuration: lists of actions stay within their schedule; any number of
schedules, actions, suppressions, events and pids), `EventsAssumption`,
`LocaltimeAssumption` (`tm_wday` is a number from 0 to 6), `QueueAssumption`, `DaemonAssumption` (any pids, any bounds) and
`ConfigAssumption` of `Config` (any number of paths and files of any length).

* **`RunnerProofs`**. `TypeCorrect` first, action by action. `PidsAlwaysOwned`:
  the pids of actions not yet reaped are distinct and not free; `ForkOwned`
  shows that this survives a fork and a reap in the same step, which is where
  pids are reused. `SuppressionsCounted`: the counters are the cardinalities
  of sets of active suppressions; a step adds or removes one suppression from
  the sets of exactly the schedules it increments or decrements. For this no
  action may be DISABLED (`ActionsUndisabled`, an invariant: no code sets that
  state), since `suppression_end` skips disabled actions. `SuppressedExactly`
  needs `StateCount` (SUPPRESSED only with a positive counter, ENABLED only
  with 0), then reads the counter as a cardinality. `RunningAlwaysHasChild` and
  `SequentialAlwaysOneChild` use `ExecEffect` and `ReapEffect`, which say what
  a step does to states and pids without the details of the data flow.
  `SuppressionPreventsStart` combines the above into an action property.
  `ExitsAreNoticed`: an action's child that has exited has a SIGCHLD pending or
  `lmapd_cleanup` is looping. Nobody listens during a reload, so it needs
  `ReloadChildless`: the new configuration has no children yet. This is the
  part of `ZombiesReaped` and `RunEnds` that is not about fairness.
* **`RunnerDataProofs`**. `InputIsStable` and `DeferredNeverLost` need a
  schedule to be RUNNING, or DISABLED, as long as it has a child (`Executing`).
  That rests on `ChildMode`, an action of a parallel schedule that has a child
  is RUNNING, which a suppression breaks that stops one of several parallel
  actions and does not match their schedule (`runner.c:492`). The theorems
  therefore have the hypothesis `StopsWholeRuns`: there is no such suppression.
  The configurations of `chain` and `boot` satisfy it. That nothing is taken out
  of a queue while a child lives needs no more: `lmapd_cleanup` cleans it when no
  action is RUNNING, which `ChildMode` and `Executing` turn into no child.
  `InputStable` is about processes and these invariants about what the daemon
  knows of them; `ForgottenWereTold` is the bridge: a live process that was not
  sent SIGTERM is the child of a RUNNING action that holds its pid
  (`ChildrenKnown`), so a reload forgets only children it has told to stop.
  `DeferredAlwaysHasChild` needs no hypothesis: the states of the actions decide
  whether a run is over, and the same test delivers what was deferred.
  `DeferredNeverLost` adds `ResultsKept`, what a child produces or has been
  deferred is in a workspace, and the hypothesis `~OperatorCleans`, since
  `lmapctl clean` empties the workspaces of running schedules too.
  `DeferredReachTheirQueues`: under these hypotheses only a reload ends a
  deferral without delivering the result to all its other schedules.
* **`EventsProofs`**. `EventsTypeCorrect`, with `Shape` (which timers can be set
  together). `SpreadNeverDrops`: in a loop on time the pending fire timer is
  due before the next trigger (`FireFirst`), as the spread is smaller than the
  interval. `NeverLost`, `StartupFiresOnce` (`StartupInv`: once a
  schedule was started, STARTUPDONE is set, and every reload turns it into
  SKIPSTARTUP), and
  `TimersImplementSource`: every step of the timers is a step of `EventSource`
  or leaves it unchanged. `EndIsKept`: a pending fire timer is due within the
  spread after the last trigger, which was not after the end (`FireInTime`).
  `FiresOnGrid`: the start and trigger timers of a punctual loop are on the grid
  start + n * interval (`TimersOnGrid`); the first turn computed after a reload
  is on it as well (`PeriodicStartOnGrid`), and with `FireFirst` a fire timer
  belongs to the turn before it. `CalendarIsPolled`: a punctual loop polls the
  calendar in the second it is in (`PolledEachSecond`), and
  `CalendarMatchMeaning` shows that the bit tests of the code mean what the
  configuration says.
* **`QueueProofs`**. `QueueTypeCorrect`. `NothingLost`, from `LoopInv` (what the daemon knows at each
  system call). `OnlyWholeResults`: without crashes the active directory holds,
  besides the result the daemon is working on, halves only of results with a
  failed unlink (`WholeInv`).
  `NoDoubleProcessing`: `OnceInv` bounds how often a result was processed, plus
  how many complete copies of it are left, plus how many forgotten runs may still
  succeed, by 1 + crashes + reloads + failures; a crash leaves a second copy or a
  forgotten run, never both, a reload a forgotten run. `QueueIsMailbox`: every
  system call is a step of `Mailbox` or leaves it unchanged. To the invariants above it adds
  `FreshInv`: a result is received once, with the second of its files, and only
  received results are ever moved or processed.
* **`DaemonProofs`**. `TypeCorrect`. `ServingNamed` is not inductive; its
  strengthening `Guarded` says, as long as start-ups do not overlap: at most one
  process is past reading the pid file and not yet exiting (`OneClaims`); the
  file names the process that serves and the one about to remove it (`Named`,
  `UnlinkOwned`); and while one process starts, the file names none that is
  exiting (`NotLeaving`), so that no exit takes the new file away. `OwnerRemoves` follows from `UnlinkOwned`. `StatusIsAnswered`
  needs `Answer`: a request that is no longer pending in the event loop it was
  sent to has been rendered since, and is written except while the handler is
  at it. `ReloadNotForgotten`: the edits that a caught SIGHUP asks for are
  `Owed`, by a pending signal or by a process on its way from the event loop to
  `ReadConfig`, until they are loaded or the process ends. It needs `Caught`,
  which is `SignalsDieWithTheLoop`: signals are pending only while there is an
  event loop, so none is taken for a debt of a later process.
* **`ConfigProofs`**. `NamesUnique` and `OrderDoesNotMatter`, from one invariant
  that follows every entry of every file: it is still to be read, or it has
  left its mark, an object of its name or a leaf that is set (`Followed`); and
  nothing in memory comes from anywhere else (`Sourced`). Without conflicts the
  two make the lists equal to the set of all definitions; that `lmap_valid` of
  the lists is then the verdict on the set is shown per list.

* **`LmapDataProofs`**. The parsers are recursive, and what a recursive operator
  computes cannot be proved here. The module therefore takes them apart: a step
  is what one field (one element of an array) does to one object, by a setter of
  `data.c`, with a text or with an object that earlier steps have made. Every
  object that a parser can hold at any moment of any document is reached this
  way; a document that JSON refuses for its types is covered too, since JSON may
  refuse at any step. That the loops of the parsers are such sequences of
  steps is by inspection of `JsonParse` and `XmlParse`, and `docs` compares the
  outcome on small documents. The invariant has three parts, one for each theorem:
  * `ParsersKeepWellFormed`: `PutKeeps`, a setter keeps an object well-formed,
    also when it refuses. It needs `Shape`: an object keeps its leaves, and its
    lists hold objects that were read, which carries the property to any depth.
  * `ConfigurationsSetNoState`: `JsonTablesGuard` and `XmlTablesGuard` go through
    every table; a field that would set operational state is marked as state, so
    the filter of a configuration stops it (`ConfigFilter`).
  * `AcceptedInBothFormats`: `TablesAgree`, for every kind of document the
    filters let the same fields of both tables pass, in the object and inside
    it. The exception, the functions of the task of a capability, is part of the
    invariant: JSON filters the `uri`, and then no list takes the function.
    `TypeCommutes` is why it does not matter that JSON sets the type of an event
    after its fields and XML before.

* **`CsvProofs`**. `FieldsReadBack`: the text is written character by character
  and read turn by turn with the operators that `Results` uses. The induction
  over the text is over the steps: `Layout` says where in the file each
  character of the text is, `Leading` and `Inside` how far `csv_next` is in the
  text and that its buffer holds what it has passed. Texts have any length and
  any characters; left out are texts with a newline and texts of quotes only,
  which do not survive.

*Only model-checked*: liveness (`RunEnds`, `ZombiesReaped`,
`DeferredDelivered`, `ReceivedProcessed`, `ReloadApplied`), which is out of the
provers' reach, except for the safety halves `ExitsAreNoticed`,
`DeferredAlwaysHasChild`, `DeferredReachTheirQueues` and `ReloadNotForgotten`; and
the properties of `Documents` and `Results` as they are stated there, over whole
documents and files (RECURSIVE operators and induction over data are out of the
provers' reach too). Of these, the theorems of `LmapDataProofs` and
`CsvProofs` prove what one field does, for any number of them. Nothing is proved
about the renderers (`JsonRoundTrip`, `XmlRoundTrip`) and about the sequence of
records and rows of a file (`MetaReadBack`, `TableReadBack`).

## 5. Limits

* `InputStable` says nothing of children that a reload has terminated and
  forgotten, of what a parallel or pipelined schedule delivers to itself, and of
  what `lmapctl clean` removes.
* `Queue` has no `lmapctl clean`, which removes results on purpose. The failing
  unlinks counted in `failed`, like crashes and reloads, are bounded for TLC; in
  the theorems the bounds are arbitrary.
* `DeferredPending` and `InputStable` do not hold for every
  configuration: a stop-running suppression of a single action of a parallel
  schedule marks it SUPPRESSED while its child lives on, so that the schedule
  counts as finished (`runner.c:492`). The runs and the theorems are about
  configurations without one (`StopsWholeRuns`), and for `DeferredPending`
  without `lmapctl clean`.
* In `Runner` `ZombiesReaped` is checked without reloads, and `ReloadDone` is a
  reload whose configuration is valid; `Daemon` has both other cases.
* `InputStable`, `NoLoss` and the other properties of the queue take
  a successful task to have processed its input. `lmapctl report` exits with 0
  also when it could not read the results (`lmapctl.c:406-408`).
* `Events` counts whole seconds: fractions by which a callback is late, which
  shift the polling of a calendar event, are not accumulated, and a
  `localtime` that fails is left out (`runner.c:935-940`). The start time
  and the timezone offset of calendar events are not used by the code
  (`ietf-lmap-control` lines 83-88 and 946-952 describe them): calendar events
  trigger before their start, and in local time whatever their offset. The
  model does the same; `CalendarEverySecond` claims nothing of these cases.
* `Documents` reads one object; the lists of objects of a document are in
  `Config`. In JSON the properties leave out: an object without fields, which
  is refused where XML takes it (an empty `lmap`, an agent of which a
  configuration shows nothing, an empty table); a tag that is the empty text; an
  interval of 0, which is stored although it is refused; a table with an unknown
  key, as the parser's table for it has no end (`json-io.c:1373-1377`).
* Not modelled:
  * the options of the command line and `daemonize`: with `-z` the workspace is
    wiped before the pid file is looked at (`lmapd.c:390-392`);
  * the header of a report, the version and tags of the system among the
    capabilities, namespaces, libjson-c and libxml2 (but for what it makes of a `&`);
  * `mksafe` and the paths of workspaces, and the measuring of disk usage;
  * the choice of the format in `lmap-io.c`, which only dispatches;
  * the layout of `lmapctl status`, and `config`, `validate` and `version`, which
    print what `Config` and `Documents` are about;
  * logging and allocation (`utils.c`), and failing allocations everywhere.

## 6. Plan

1. *Done*: `Runner`, `Queue`, `Events`, with their proofs.
2. *Done*: `Daemon` with its proofs; `LmapData`, `JsonIO`, `XmlIO`, `Documents`;
   `Config` with its proofs; `Results`.
3. *Done*: `Mailbox`, which `Queue` refines; the theorems on deferred results,
   end times, the grid of periodic events and calendars.
4. *Done*: the theorems on stable input, reloads, parsers and CSV fields.
5. Left: a composition of the queues of several schedules (`Mailbox`) with the
   part of `Runner` that moves results between them; the renderers, taken apart
   like the parsers.
