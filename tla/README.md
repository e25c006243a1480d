# wfh-logbook: specifications, model checking and proofs

wfh-logbook records which hours were worked from home: it polls a UniFi
controller for the phones and laptops on the work SSID, keeps every sighting as
an append-only observation, turns a day's observations into sessions each night,
and keeps a versioned summary per day that a human corrects and locks, from a
web page, a JSON API or a Telegram bot, before the year is exported.  This
directory holds TLA+ models of that program, the TLC configurations that check
them on small instances, and TLAPS proofs of the results that must hold for
every instance.  Paths below are relative to the repository.

## The system

| Component | State it keeps | Operations | What makes it correct |
|---|---|---|---|
| Day ledger (`app/api/days_service.py`, `app/api/days.py`, `app/sessions/persistence.py`) | `daily_summaries` (versions per date), `sessions` | adjust, lock, lock the clean days, re-sessionise | versions 1..n, nothing rewritten, corrections survive, summary and sessions agree, whatever interleaves |
| Database sessions (`app/db.py`) | one SQLite file in WAL mode, one write lock | commit on return, roll back on error, busy timeout | an operation takes effect whole or not at all |
| Session builder (`app/sessions/builder.py`) | none | `build_sessions_for_date` | exactly the presence in the observations, bridged, filtered, each session on one date |
| Scheduling (`app/sessions/scheduler.py`, `__main__.py`) | none of its own | nightly job, command line | every past day is eventually summarised and locked days stay as they are unless their data changed |
| Poller (`app/unifi/`) | signed in or not, `observations`, `poller_state` | one cycle every few minutes | a disconnect is recorded once, with the last time seen; a failed cycle leaves nothing but its failure count |
| Review queue (`app/api/review_queue.py`, `lock_clean_days`) | none | list the days and why, gaps in sessions, bulk lock | nothing flagged is locked without a human, and all screens count the same days |
| Lock reminder (`app/notifier/reminders.py`) | none but the outbound log | list the backlog once a day | what it calls clean is what the bulk lock would lock |
| Telegram bot (`app/notifier/`) | `bot_messages`, `bot_chats`, `bot_state` | updates by webhook or polling | each update takes effect at most once, the evidence row comes first |
| Backup (`app/backup/`) | snapshot files | daily snapshot, pruning, on-demand | the retention rules |
| Exports and year page (`app/exporters/`, `app/api/exports.py`) | none | XLSX, CSV, bundle | only what was reviewed, and files that agree with each other |
| Configuration and start-up (`app/main.py`, `app/config.py`) | `config`, `devices`, `poller_state` | seeding from `.env`, start of poller and bot | seeded once, every device tracked once, a failing neighbour does not stop the start, and what does stop it is known |

The components share nothing but the database.  The scheduler's threads (poller,
nightly job, backup, reminder; each `max_instances=1`), FastAPI's thread pool, the
bot and the command line each open their own SQLAlchemy session.  Python's
`sqlite3` runs SELECTs outside a transaction and starts one at the first INSERT,
UPDATE or DELETE; that statement takes SQLite's single write lock, which the
session keeps until commit or rollback, while others wait for the busy timeout
and then fail.  The hard behaviours are consequences: reads that are stale when
the write comes, Telegram calls made while the lock is held, several dates in one
transaction, updates delivered twice, and data that arrives late.

## Modules

| Module | Models |
|---|---|
| `DaySummaries` | a row of `daily_summaries`, the operations that make one from another (`Corrected`, `Resummarised`, `LockVersion`) and what a good history is; no state |
| `DayVersions` | the atomic day service: the abstract specification |
| `DayLedger` | the concurrent database sessions; refines `DayVersions` |
| `ReviewQueue` | the life of the dates over days: evidence, nightly runs, corrections, locks, the queue and the bulk lock; uses the row operations of `DaySummaries` |
| `Export` | an export's reads, interleaved with every step of `ReviewQueue`, which it extends |
| `SessionBuilder` | the pure builder and the gap finder, its loops as actions, and a reference without loops |
| `Poller` | the polling cycle against a controller and a write lock of other sessions |
| `BotUpdates` | the bot as atomic updates: the abstract specification |
| `Bot` | receiving updates, `process_update`, the conversation; refines `BotUpdates` |
| `Backup` | snapshots and their retention, by the nightly job and by requests at once |
| `Startup` | the starts, stops and crashes of the process on one database |
| `HistoryProofs` | lemmas about `DaySummaries`, used by the next two |
| `DayLedgerProofs` | theorems about the ledger |
| `YearProofs` | theorems about the days, their queue (`ReviewQueue`) and their export (`Export`) |
| `SessionBuilderProofs`, `PollerProofs`, `BotProofs`, `BackupProofs`, `StartupProofs` | theorems about the module each is named after |
| `MCDayLedger`, `MCReviewQueue`, `MCYear`, `MCSessionBuilder`, `MCPoller`, `MCBot`, `MCBackup`, `MCStartup` | values for TLC |

`DayLedger` has the interleavings inside one operation on one instant; `ReviewQueue` has
the calendar, with an operation as one step (which the refinement theorem of
`DayLedger` justifies: commits are atomic), except for the bulk lock, whose reads and
write stay apart.  That a lock can fall on a version overtaken meanwhile is in `DayLedger`
only.

`DayLedger` sees the builder, the poller and the bot from the outside: the builder is
its `SecondsOf`, the poller its `NewObservations`, a bot action one of its requests.

### DayLedger

A date's history is a **set** of rows, so that neither uniqueness nor order of
versions is built in.  The variables and the code:

* `rows`, `sess`: the committed tables `daily_summaries` and `sessions`; of the
  sessions of a date only the evidence level they were computed from is kept, and
  `SecondsOf` stands for the pure builder.
* `evidence`: the committed observations of a date, as a level that only grows.
* `writer`, `dirty`: the session that holds the write lock and its uncommitted
  image of both tables.
* `job`, `todo`, `pc`, `seen`, `loaded`: what each session is doing and what it
  holds in Python variables: the latest row read (`latest` in `adjust_day` and
  `lock_day`), the observations loaded (`sessionise_date`).

| Action | Code |
|---|---|
| `Submit` | a request, a bot action, a scheduled run or a command starts |
| `AdjustRead`, `AdjustInsert`, `AdjustConflict` | `adjust_day`: the SELECT, the INSERT, the IntegrityError of the UNIQUE constraint |
| `LockRead`, `LockUpdate` | `lock_day`, also as called in the loop of `lock_clean_days` |
| `LoadObservations`, `ReplaceSessions` | `sessionise_date`: the load before the transaction; then DELETE, INSERT of the sessions and `_ensure_summary_version`, one action because the DELETE holds the lock for all of it |
| `Commit`, `Abort`, `BusyTimeout` | `get_session` and the jobs' own commit and rollback; a crash or a dry run; "database is locked" |
| `NewObservations` | the poller's committed transaction |

`Abort` may happen at any point of an operation, so a crash between any two
statements is covered.  A restart needs no action of its own: nothing an
operation holds outside the database survives `Forget`.

What a stale read can do is visible in the model: `AdjustInsert` uses `seen`, not
the present latest row, and is stopped only by `VersionTaken`; `LockUpdate` locks
the row that was read even when a later version has been committed meanwhile.
`DayVersions!Locks` states that honestly: it locks a row that exists, at most one
of each date, not necessarily the latest.

### SessionBuilder

`build_sessions_for_date` is sequential, but its loops carry the state that can go
wrong, so each iteration is an action.  `Load` is `_load_observations` with
`utc_buffer_for`; `ScanConnected`, `ScanDisconnected` and `ScanEnd` are the branches
of `_per_mac_intervals`; `SweepBegin` and `SweepEnd` those of the event sweep in
`_union`, in the order of its sort key (`Before`: at one instant starts come before
ends); `BridgeNext` is an iteration of `_gap_bridge`; `Finish` appends the last
interval and applies `_filter_too_short` and the attribution to the local date of
the start.  `Observe` builds the log beforehand: any pattern of rows per device, in
the order `_load_observations` sorts them, repeated states and equal timestamps
included, since the poller writes a connected row every cycle.

The reference (`Covered`, `Runs`, `Expected`) has no loop: a connected row covers the
time up to the device's next row, a session is a longest run of covered instants
with no hole longer than the bridge.  Instants are half units, so that a gap between
two intervals that do not touch has an inside even if it is one unit long.

`Loaded` takes the rows of the window as a stretch of the sorted log (`UpTo` counts the
rows up to an instant), which is what the query's range over an index in that order gives.

`Holes`, `Gaps` and `Reportable` are `find_observation_gaps` of the review queue, which works
on the sessions this builder stored and the same rows: `GapsAreTheUnseen` says what a
reported gap is and what the absence of one means.

Time is in units and a day has `DayLength` of them: daylight saving changes of
`utc_buffer_for` are left out, as are labels of devices.

### Poller

`Begin` to `RequestFails` are the requests of a cycle (`run_cycle`, `login`,
`list_active_clients` with its one re-login after a 401); `loggedIn` is
`Poller._logged_in` and `token` the controller's opinion of it.  `Commit` is
`poll_once` with `_update_poller_state` and the commit, one action because the reads
are the poller's own rows and the write lock is taken at the first INSERT.
`CommitBusy`, `RecordFailure` and `RecordFailureBusy` are the error handlers:
rollback, failure count, second commit, which can fail as well.  `Tick` moves the
world: devices come and go, and the controller hears of some of those present.
`Restart` forgets the session and an unfinished cycle and keeps the database.

Left out: the start-up probe that picks the adapter, parsing of the payload, label
changes, and retiring devices, for which the program has no operation.

### Bot

| Action | Code |
|---|---|
| `Send`, `Asked` | Telegram: it keeps an update until it is acknowledged (external) |
| `Deliver`, `Answered` | `telegram_webhook`: 200 acknowledges, an exception is answered 500; either may be lost |
| `Fetch`, `FetchFails`, `FetchBreaks`, `Take`, `NextOffset` | `polling_loop` and `get_updates`: the offset acknowledges what is before it |
| `Record`, `Duplicate`, `RecordFails` | `record_inbound`: its own commit; the UNIQUE index on `telegram_update_id`; any other error |
| `Plan`, `Target`, `TimedOut` | `handle_event`: the list of actions it returns, here as steps |
| `Tell`, `SetAwaiting`, `ClearAwaiting`, `Apply` | `_execute`, each in the uncommitted second transaction `tx` |
| `Commit`, `Fails` | the final commit, with `rejection_sent`; the rollback |
| `Crash` | the process dies: `tx`, the fetched batch and the offset are gone |

`BotUpdates` states what all this amounts to: an update is recorded, then handled in one step
or given up for good.  Its actions are the branches of `handle_event` (`Reject`, `Command`,
`Ask`, `Press`, `Reply`, `AskAgain`, `TooLate`, `Hint`), each of which says what the chat is
asked from then on, which date the update was applied to and that its answer is on record.
`Bot` maps to it with `InHand`, `TakenAt`, `AppliedTo` and `AnswersTo`: the uncommitted
transaction, deliveries, the batch and the offset are not seen.  It says what the other
properties of the bot do not: an effect is committed with its answer and with the state
of the chat or not at all, and every kind of update does just what the conversation says.

The batch of the loop is a set of updates, taken in the order of their numbers.  `log` is
a history variable with the updates whose second transaction committed.
Updates are processed one at a time in the code: the webhook handler is a coroutine
that calls the synchronous `process_update`, and the loop awaits each update.
`Apply` may be accepted or refused by the day service; what an accepted one does is
`DayLedger`'s.  `/rebuild`, `/today` and `/lockall` are commands like any other here.
Left out: texts and buttons, the grammar (a text parses or not), updates of other
kinds (recorded, then ignored), callbacks without a date, and changes of the
allowlist, which is read at start.

### Backup

`run_snapshot`, step by step and by several workers: `Begin` takes the local date;
`Copy`, `Refuse`, `Copied` and `CopyFails` are `snapshot` with its `VACUUM INTO`, which
refuses a file that has something in it and leaves what it wrote when it fails; `List`
judges what `_list_snapshots` finds, `Unlink` and `UnlinkGone` are the loop that
deletes, and `Stamp` and `StampBusy` the update of `poller_state.last_backup_at`.
`files` is the backup directory, what it holds of each day's snapshot; `made` and
`taken` are history variables.  A file counts for retention whether or not it was
finished, as in the code: a month whose first copy was cut short keeps that one and
loses the complete later ones with time.  Which month a day is in is a constant
(`Calendar`), any function that does not decrease.  A database's content is not modelled: a
copy is consistent because SQLite makes it in one read transaction.

### ReviewQueue

| Action | Code |
|---|---|
| `Midnight`, `Observe` | the calendar; observations of today, or of a session that began yesterday and goes on |
| `Nightly` | the 01:15 job, or a further run with `--nightly-window`: `dates_needing_resessionisation` and `sessionise_date` for each |
| `Rebuild` | `sessionise_date` asked for by a person: page, chat or command line |
| `Adjust`, `Lock` | `adjust_day`, `lock_day` |
| `BulkShadows`, `BulkRows`, `BulkJudge`, `BulkLock` | `lock_clean_days`: the spill-over of sessions, the latest rows and the sessions are three reads, the locking comes last and reads again |

`Reasons` is the predicate of `build_review_queue`; `Queue`, `Backlog`, `Reminded`,
`UnlockedIn` and `ListDays` are what the page, the banner, the reminder, the export's guard
and the calendar show, each by its own query.  The reminder leaves out days younger than
`Threshold` (`lock_reminder_threshold_days`).  Of a date's observations only a level is kept; `SecondsOf`,
`FlagsOf` and `SpillOf` say what sessions of that level amount to, which flags they raise
and into how many later dates they run: any functions, in the proofs.  `nights`, `rebuilt` (the
dates a person had rebuilt) and `moved` are history variables.  An operation with an error path that changes nothing (no
summary, locked already) is a guard here.

### Export

`Begin` is the guard of `api/exports.py` (`_guard_unlocked`), then each SELECT is an action:
the Summary sheet, the Year total sheet, which reads again, and for a bundle the CSV files
in the order of `write_bundle`.  No transaction spans them, so every step of
`ReviewQueue` may come between two; `touched` is the history variable that names the dates
it rewrote.  A date's history keeps every row, so what a read saw can be found again later:
`TotalsCountVersions` says which rows the Year total sheet may have counted.  The CSV of a range and the command line have no guard.  Cells, formats,
hashes and the zip are left out.

### Startup

`Launch` to `StartBot` are `lifespan` in `app/main.py`: `seed_config_if_missing`,
`ensure_poller_state`, `seed_devices_if_missing` one entry at a time in an uncommitted `draft`,
one commit, then the scheduled jobs, the poller and the bot.

| Action | What ends the start, or does not |
|---|---|
| `Malformed` | an entry of `WORK_DEVICE_MACS` without `=`: nothing is committed |
| `SeveralActive` | the query for one active row finds several: `ActiveRows` looks at committed rows only, because the session does not autoflush, so an `.env` that names a device twice gives it two rows and the next start with it ends here |
| `ZoneUnknown` | `ZoneInfo` raises on `local_timezone` when the jobs are registered, outside any `try` and after the commit: the zone is that of the config row, and once a bad one is in it every later start ends here, whatever `.env` says, until the row is edited |
| `ReminderRefused` | with a bot token, `register_reminder_job` raises on an hour that is none, again after the commit |
| `AdapterFails`, `StartBot` | the controller or the registration of the webhook fails: the start goes on |

A setting pydantic cannot read ends the process before the database is opened and is no
`.env` of the model.  `Retire`, `Relabel` and `Reconfigure` are the edits by hand that the
documents prescribe; rows of devices inserted by hand are not among them.  `Crash` may come
at any step.  `first`, `doubled` and `edited` are history variables.  Left out: the
migrations, which Alembic makes idempotent, and the kind of the controller.

### What is abstracted in DayLedger

Reasons, timestamps, rule versions and the text of sessions; `created_by` web and
telegram are both "human".  One `Requests` constant enumerates which operations
are asked for.  `rule_version` is left out because changing the configuration is
not an operation of the program.

## Runs

| Run | Instance | Properties |
|---|---|---|
| `ledger` | two dates, two sessions; the sessioniser and the bulk lock cover both dates in one transaction, an adjustment of -1 for the first | `HistoriesWellFormed`, `SessionsMatchLatest`, `CorrectionsStick`, `IInv`, `AppendOnlyHistory`, `EveryJobEnds`, `ImplementsDayVersions` |
| `builder` | two devices, two dates of four units, buffer half a day, every pattern of up to four rows | `SessionsExact`, `SessionsAccounted`, `GapsAreTheUnseen`, `BufferSuffices` |
| `midnight_in_full` | one device, up to five rows | `AttributedInFull` is violated |
| `poller` | two devices, instants 0 to 3 | `DisconnectsPaired`, `ConnectedIsCurrent`, `FailuresSinceSuccess`, `SeenInOrder`, `IInv`, `EveryCycleEnds` |
| `bot_delivery` | both modes, one allowed chat and one stranger, two updates of any kind, one crash | `ImplementsBotUpdates`, `AtMostOnce`, `StrangersAnsweredOnce`, `WebhookKeepsEvidence`, `EveryUpdateLeaves` |
| `bot_conversation` | both modes, three updates about corrections, one crash | `TextAnswersQuestion` |
| `backup` | two workers, four months of two days, two snapshots kept by each rule, one failure or crash | `IInv`, `DailyKept`, `MonthlyKept`, `ReportedIsTaken`, `PruningBounds` |
| `backup_now` | one worker, no failure | `BackupNowWorks` is violated |
| `review` | four days, window and trailing of two, two requests by people | `IInv`, `FinalEvidenceCounts`, `ViewsAgree`, `SummaryOrigin`, `BulkLocksJudged` |
| `backfill` | the same | `TrailingDaysBackfilled` is violated |
| `year` | the year is two days, with everything of `review` between the reads of an export | `AuditTrailCovers`, `UntouchedDaysAgree`, `TotalsCountVersions` |
| `startup` | up to four starts with seven `.env` files, two edits | `RulesSeededOnce`, `OneActiveRow`, `StartTracksAll`, `UsableStartServes` |

Each module's `TypeOK` is part of its `IInv`, where there is one; `SessionBuilder` has a
`TypeOK` of its own.  The invariants `IInv` of `Startup`, `SessionBuilder` and `Bot` and `YearIInv` of `Export` are not
properties of a run: TLC found them to hold on the instances of `startup`, `builder`,
`bot_delivery` and `year`, and they are proved.

### Bounds

*Ledger.*  `MaxEvidence = 1` gives a date without presence and one with an hour, so
the sessioniser can find a change in both directions (an older load can commit
last); `MaxVersion = 2` stops requests for corrections, not the versions the
sessioniser adds, and lets both sessions write two versions each before it
bites.  Two sessions are enough for every pairwise race over one write lock; the
proofs cover any number.  The adjustment -1 takes an hour to nothing, and a day
without presence below zero before the clamp; `review` has one that adds.

*Builder.*  Four rows over two devices contain every pair of intervals that touch,
overlap, nest or leave a gap on either side of the bridge, intervals of no length,
equal timestamps and devices that never disconnect; the horizon of two days puts
rows before, on and after each edge of both dates' buffers.  `Dense` restricts
`BufferSuffices` in one direction to logs without outages as long as the buffer
less the bridge, and to a bridge no longer than the buffer (the configuration puts no
limit on `gap_bridge_minutes`): without it, rows on both sides of an outage would be
seen as beginning late.

*Poller.*  Instants 0 to 3 give three cycles: a device is seen, vanishes and comes
back, with a failed cycle or a restart between.

*Review.*  Two levels of evidence: two plausible hours, and a session of five, over the cap
of three, that raises a flag and runs past midnight, so that the next day is in its
shadow.  Four days with a window and a trailing of two hold a date before, at and after both edges.
The reminder's threshold is 2: with the default of 1 it leaves nothing out, since the
backlog has no day younger than one.  Two requests (`MaxActs`) are a bulk lock and one thing that races it, or a correction and
the lock that freezes it; dates after `LastObserved` have no observations, so that the
calendar can run on.  `MaxDay` stops it.  The adjustments -2 and +2 bring a suspicious
day under the cap and put hours on an empty one.

*Year.*  The same instance with two days and two requests: an export that races a nightly
run, a rebuild, a correction or a bulk lock over one or both dates of the year.

*Startup.*  Four starts let a file seed, another follow, a doubled one bite one start
later, and a crash come between; two edits retire and relabel the same row, or mend a zone
that an earlier start committed.

*Bot.*  `Timeout = 1` and `MaxTime = 2` let a question be in time, at its limit and
late.  Two updates are enough for redelivery, reordering and a batch with a failing
head; three are a question, something that closes it, and a text, or the same with
one of them delivered again.  One crash can hit every point between two steps.

*Backup.*  Four months with two kept give two prunings of a monthly snapshot; a window
of two days is the smallest in which a run that began yesterday is still protected,
and every pattern of missed days occurs.  `NextDay` waits for a run that began the day
before to end: a copy takes seconds, and two nights of one run are not considered.

Deadlock is checked in the runs of the ledger, the builder, the poller and the backup: there
some actor can always move.  In `review` and `year` the calendar ends with no request left, and
in `startup` the process may be down for good.  In the bot's runs it is not checked either,
because with all updates sent, processed and acknowledged, and the bounds of time and
crashes used up, the webhook really has nothing left to do.

### Fairness

*Ledger.*  `WF_vars(Step(w))` for every session.  `Step` is what a thread does of
itself once its operation began; the operating system runs threads, SQLite's
busy handler gives the lock or an error after its timeout, and `get_session` and
the `with` blocks close every session.  Nothing is assumed of `Submit`, `Abort`
or `NewObservations`.  `EveryJobEnds` holds although a session may find the lock
taken every time it looks, because then it times out.

*Poller.*  `WF_vars(Step)`: a cycle goes on by itself, requests have a timeout and
SQLite's busy handler ends.  Nothing is assumed of the controller, the lock or the
scheduler.

*Bot.*  `WF_vars(Process)`: a handler or the loop's thread goes on, and calls to
Telegram time out.  `WF_vars(Receive)`: Telegram retries a webhook and the loop
asks again.  `SF_vars(Record)` and `SF_vars(Acknowledge)`: the write lock is not
taken, and the webhook's answer not lost, every single time; without them
`EveryUpdateLeaves` says nothing, since an update that never arrives cannot leave.
`EveryUpdateLeaves` allows the polling task to have ended, which it can (see below).

*Startup.*  `WF_vars(Go)`: the steps of `lifespan` follow one another, and those that wait for
the controller or for Telegram time out.  Nothing is assumed of who restarts, stops,
kills or edits; so `UsableStartServes` allows the start to be killed.  It is about starts
that `Usable` describes: what ends the others is in the table of Startup.

### What the violations show

* `midnight_in_full`.  METHODOLOGY 4.4 attributes a session over midnight in full to
  the date it began on.  The builder loads twelve hours beyond the date.  In the run a date
  has four units and the buffer two: a session of one device with rows at 3, 5 and 7, from the
  last quarter of one date to the last quarter of the next, is found as 3 to 5.
* `backfill`.  `docs/OPERATIONS.md:40-41` calls a gap after a reboot "self-healing — the
  sessioniser back-fills the trailing 7 days", and `docs/ARCHITECTURE.md:236` and `:247` have the
  nightly run insert a missing summary.  The trailing days are searched for unlocked
  summaries, so a date whose own night was missed, having none, is never picked, whatever
  its observations; `SummaryOrigin` says what the code does.
* `backup_now`.  A snapshot is named for the date, and `VACUUM INTO` refuses a file
  that exists.  After the nightly snapshot every "Back up now" of that day fails, and
  one between midnight and 02:00 makes the nightly job fail.

### Other differences met while modelling

Differences between code and documents, or surprises, that the models show by what
their actions may do, without a run of their own:

* `run_cycle` "never raises" (`app/unifi/poller.py:161`), but its error handlers commit the
  failure count with nothing around the commit; with the write lock taken it raises and
  the failure is not counted (`Poller!RecordFailureBusy`).  The scheduler keeps the job.
* The polling loop takes the evidence row for granted (`app/notifier/polling.py:44`) and
  moves its offset on when the evidence commit itself failed, so that an update can be
  acknowledged and unlogged (`HANDOFF.md:412`).  `WebhookKeepsEvidence` shows that the
  webhook does not have this.
* An answer of `getUpdates` that is not JSON raises a `ValueError` where only `TelegramError`
  is caught, and the polling task ends (`Bot!FetchBreaks`).
* A restart leaves `bot_state` as it is, and no code of the start clears it, so a number typed
  after it, within the timeout, answers the question asked before it (`Bot!Crash`);
  `docs/ARCHITECTURE.md:296` says the awaiting state clears "on app restart".
  `TextAnswersQuestion` is about what the code does and holds across restarts.
* The rows of messages sent are in the transaction that a later failure rolls back, so what
  Telegram has already delivered may be on no record (`app/notifier/service.py:457`), a
  stranger may be told twice, and an update that was given up may have been answered;
  `HANDOFF.md:412` wants outbound messages logged "regardless of processing outcome".  The
  bot's properties are about the database.
* A lock falls on the version that was read, also when a correction was committed in between:
  that version is locked, the new one open (`DayLedger!LockUpdate`), where
  `docs/ARCHITECTURE.md:265` says "on the latest version".
* Nothing holds between the guard of an export and the read of its sheets: a rebuild in between
  makes an unlocked row that a guarded export lists (`HANDOFF.md:570`: "an ATO export should
  not silently ship un-reviewed days").
* A `LOCAL_TIMEZONE` nobody knows is committed before it is used, and refuses that start and all
  later ones, because the config row wins over a mended `.env` (`app/main.py:145`).
* The bulk lock judges days older than the window by their claim alone, since the
  queue looks for flags in the window only, and locks whatever is the latest row when it
  comes to lock; `BulkLocksJudged` is as strong as the code.
* The reminder offers `/lockall` for days of no hours as clean
  (`app/notifier/reminders.py:77-84`), though its flags "mirror the exclusions" of
  `lock_clean_days`, which leaves those days alone; `ViewsAgree` makes the exception.
* A hole in one device's rows after another device's disconnect is not reported as a
  gap, because `find_observation_gaps` merges the rows of all devices
  (`app/api/review_queue.py:103-105`).
* An end-dated device that is still in `.env` is inserted again as active at the next
  start; a device named twice in `.env` makes the start after it fail.

## Proofs

Every theorem holds for all values of the constants that the module's assumption admits.
`HistoryProofs` has what they share about one date's history: each operation on rows
keeps it good (`GoodCorrected`, `GoodResummarised`, `GoodLock`), and the latest row
exists and is unique.

### The ledger

`DayLedgerProofs` proves, for every set of dates and sessions, every evidence
bound and every set of adjustments, from `EvidenceAssumption` (the levels and
`SecondsOf` are naturals and no observations give no seconds) and
`LedgerAssumption` (dates are comparable; an adjust is for one date):

| Theorem | Statement |
|---|---|
| `TypeCorrect` | `Spec => []TypeOK` |
| `Invariance` | `Spec => []IInv` |
| `WellFormed` | `Spec => []HistoriesWellFormed` |
| `LatestMatchesSessions` | `Spec => []SessionsMatchLatest` |
| `CorrectionsAreKept` | `Spec => []CorrectionsStick` |
| `AppendOnly` | `Spec => AppendOnlyHistory` |
| `Refinement` | `Spec => ImplementsDayVersions` |

The three safety properties are not inductive: they speak of committed rows, and
what is committed next is in the image of the lock holder, which depends on what
it read earlier.  `IInv` (in `DayLedger`) adds

* `ImageOK`: the image is the committed state with each finished date worked on
  once by the operation (`Worked`) and the rest untouched;
* `SeenIsReal`: a row an operation read is still in the table, perhaps no longer
  the latest;
* `JobsOK`, `LockHeld`: only a running operation holds the lock, and an adjust
  that holds it is done with its only date.

The argument of `AdjustInsert` is the heart: by `SeenIsReal` the row read exists;
by `FreeSuccessorIsLatest`, in a contiguous history a row whose next version is
free is the latest; so the UNIQUE constraint makes the stale read harmless and
the step is `Worked`.  `GoodAppend`, `GoodResummarised` and `GoodLock` show that
each kind of work keeps a history good, and `WorkedKeeps` collects them for the
commit.  The refinement follows from `ImageOK`: only `Commit` is visible.

### The poller

`PollerProofs` proves, for any set of devices and any bound on time, from
`PollerAssumption`:

| Theorem | Statement |
|---|---|
| `Invariance` | `Spec => []IInv` |
| `DisconnectsArePaired` | `Spec => []DisconnectsPaired` |
| `ConnectedMeansLastSuccess` | `Spec => []ConnectedIsCurrent` |
| `FailuresAreCounted` | `Spec => []FailuresSinceSuccess` |
| `SightingsInOrder` | `Spec => []SeenInOrder` |

The four properties are about what is committed and are not inductive, because a
commit writes what a cycle learned earlier.  `IInv` adds `CycleOrder` (the attempt
under way is later than the one on record, so its rows come last and its failure is
one more attempt) and `Sightings` (the answer in hand is no older than any row and no
newer than what the controller knows).  The work is in `CommitKeepsRows`: the rows
`RowsOf` adds to one device keep that device's history right; every other step
leaves the histories alone (`QuietStep`).

### The session builder

`SessionBuilderProofs` proves, from `BuilderAssumption`, for any number of devices, any
log, bridge, minimum length and buffer:

| Theorem | Statement |
|---|---|
| `Invariance` | `Spec => []IInv` |
| `Types` | `Spec => []TypeOK` |
| `Exactness` | `Spec => []SessionsExact` |
| `Accounting` | `Spec => []SessionsAccounted` |
| `GapReport` | `Spec => []GapsAreTheUnseen` |
| `BufferIsWide` | `Spec => []BufferSuffices` |

That a loop over data of any length computes what a reference says would be an induction
over the data, which the provers cannot do; because each iteration is an action, it is an
induction over steps, and the loop's invariant a part of `IInv`:

* `ScanRight` and `IntervalsRight`: the intervals found of a device and the one being
  scanned cover what the rows scanned so far cover (`ScanRow`, one row more;
  `ScanConnectedRight`, `ScanDisconnectedRight`, `ScanEndRight`, the three branches).
* `SweepRight`: the open intervals are those begun and not ended, `openCount` is their
  number, and what is merged is covered, ends before everything pending begins, and has
  lost nothing.  `SweepBeginRight` and `SweepEndRight` rest on the order of the sort
  (`NextEvent`): a start that touches an end comes before it, so the count is zero only
  where nothing is covered beyond.
* `BridgeRight`: what is bridged is linked (`Linked`: no step inside is longer than the
  bridge, its gaps are the maximal holes inside, its devices those seen) and further than a
  bridge from its neighbours.  `Join` is the heart: two such stretches at most a bridge
  apart are one, with one gap more.
* `ResultRight`: the same of the whole result.

`Exactness` then needs that a sequence of linked stretches, apart from each other, that
loses nothing is the set of longest runs (`NothingNear`, `Pieces`, `RunsArePieces`).
`BufferIsWide` compares two references, over the rows loaded and over the log: a run that
reaches into the date and ends within the buffer has every row loaded (`RunIsLoaded`), and a
dense log leaves no run of an earlier date without a row in the buffer that links up with it
(`NothingEarlier`).  `GapReport` uses that the two rows of a hole are consecutive
(`PairWithin`), so that what is between them is covered if the first is connected.

### The review queue

`YearProofs` proves, from `QueueAssumption`, for any window, trailing days, cap, threshold
and evidence:

| Theorem | Statement |
|---|---|
| `Invariance` | `Spec => []IInv` |
| `BulkLocksAreJudged` | `Spec => BulkLocksJudged` |
| `ViewsAlwaysAgree` | `Spec => []ViewsAgree` |
| `SummariesHaveAnOrigin` | `Spec => []SummaryOrigin` |
| `FinalEvidence` | `Spec => []FinalEvidenceCounts` |

`IInv` says that every date has a good history in line with its sessions, and `BulkKnows`
that what a running bulk lock has read still holds of every date that nobody rewrote, nor a
date before it, since.  The work is in `BulkKept` (no step of another actor makes this
false without entering `moved`) and `CleanIsPlausible` (the queue's reasons, read at
different times, add up to the judgement of one instant).  `ViewsAlwaysAgree` needs
that a history's latest version is its number of rows (`VersionsCount`).
`FinalEvidence` splits on whether the night's job picks the date: one it leaves alone in its
trailing days has its latest version locked, with the total that is wrong, and stays so
under corrections (`LockKeepsFrozen`, `CorrectionKeepsFrozen`), as only people add versions
to it until the next night.

### The export

For the export it proves, from `YearAssumption` too:

| Theorem | Statement |
|---|---|
| `YearInvariance` | `YearSpec => []YearIInv` |
| `TrailCovers` | `YearSpec => []AuditTrailCovers` |
| `UntouchedAgree` | `YearSpec => []UntouchedDaysAgree` |
| `TotalsAreTraced` | `YearSpec => []TotalsCountVersions` |

An export changes nothing (`ExportsChangeNothing`), so the invariant of the review queue
holds throughout.  `YearIInv` says of each stage what the earlier reads have in common
with the tables now: on untouched dates everything, on the others that a row once
read stays, perhaps locked (`RowsStay`).  `ReadsStandDays` has the steps of people and jobs,
`ReadsStandExport` the reads.  `TotalTraced` keeps, for the totals once read, the row each date contributed; it
survives because rows are only added and locked (`CountingsStay`, `RecordedIsSeen`).

### The bot

| Theorem of `BotProofs` | Statement |
|---|---|
| `Invariance` | `Spec => []IInv` |
| `EffectAtMostOnce` | `Spec => []AtMostOnce` |
| `EvidenceKept` | `Spec => []WebhookKeepsEvidence` |
| `TextsAnswerQuestions` | `Spec => []TextAnswersQuestion` |
| `OneAnswerPerStranger` | `Spec => []StrangersAnsweredOnce` |
| `Implementation` | `Spec => ImplementsBotUpdates` |

What a chat is waiting for is a row, and the promise is about the past: `QuestionsStand`
ties the row to the update in `log` that asked and that nothing closed since.  It is
preserved because of `MidConversation`, which says how far the steps of one update have
got: the uncommitted state is that of the row, or cleared, or a new question, by the kind
of update.  `EvidenceFirst` and the UNIQUE index give at most one effect.  Induction over
the plan of steps is avoided by its bound of four (`Len(todo) <= 4`).

For the refinement, `HalfDone` adds what a commit needs to know of the steps before it (an
answer was sent, nothing was applied that the kind of update does not apply) and
`TimeRunsOn` that no open question is younger than the update in hand.  Only `Record`,
`Commit`, and the ends of an update that was recorded are visible (`CommitMapped`);
`CommitImplements` goes through the branches of the conversation, and everything else
stutters.

### The backup

| Theorem of `BackupProofs` | Statement |
|---|---|
| `Invariance` | `Spec => []IInv` |
| `DailiesAreKept` | `Spec => []DailyKept` |
| `MonthliesAreKept` | `Spec => []MonthlyKept` |
| `ReportsAreTrue` | `Spec => []ReportedIsTaken` |
| `DirectoryIsBounded` | `DailyRetain > 1` gives `Spec => PruningBounds` |

A run deletes what it judged earlier, while others add and delete; `Condemned` says that
what it is about to delete is unprotected for good: too old for the daily rule, and not the
first of its month or followed by enough other firsts (`LaterFirsts`), a number that only
grows.  That the first file of a month is still there, so that a later one does not take
its place among the firsts, is the other half (`LaterMonths`, `MonthsNext`).

`PruningBounds` needs that what a run leaves behind, of the files too old for the daily
rule, stays as few as the monthly rule keeps while the run deletes (`FewLeft`, preserved by
`FewLeftNext`): the files it does not list are the latest firsts (`LatestFew`), and others
delete but do not add such old files, since a snapshot is named for the day its run began and a
run ends before the night after next.  The last is why more than one daily snapshot must be kept:
with one, a run begun the day before can finish its file behind another run's listing, and TLC
finds the bound exceeded.  The code keeps 30 (`DAILY_RETAIN`).

### Start-up

| Theorem of `StartupProofs` | Statement |
|---|---|
| `Invariance` | `Spec => []IInv` |
| `RulesAreSeededOnce` | `Spec => []RulesSeededOnce` |
| `RowsAreUnique` | `Spec => []OneActiveRow` |
| `AllAreTracked` | `Spec => []StartTracksAll` |

`Drafted` ties the uncommitted rows to what the tables lack, which nobody can change while
a start is seeding; `TrackedSoFar` follows the loop over the entries; `ActiveOnce` is the
uniqueness, with pairs of rows in place of a cardinality.  A start that ends after its
commit keeps the invariant like any other end (`Down`).

### Model-checked only

`EveryJobEnds`, `EveryCycleEnds`, `EveryUpdateLeaves` and `UsableStartServes` are liveness
properties under fairness, out of the prover's reach.  Every invariant and action property
that a passing run checks is proved.  What `midnight_in_full`, `backfill` and `backup_now` show is a
behaviour, for which a run is the evidence.

## Order of the work

The ledger came first, because all that is exported rests on it, then the builder, the
poller, the bot and the backup, then what composes the ledger's rows over days: the review
queue, and the export on top of it; start-up last.  Worth adding: the choice of the
adapter at start-up as actions of `Poller`.

## Not modelled

* Append-only tables: the triggers and ORM guards need no model, since no modelled
  operation updates or deletes an observation or a bot message; the code has none.
* Health: it reads one row.
* Rendering, styles, JSON schemas, logging, the layout of the exported files, the fetch
  tools and deployment: no state, or only I/O.
* Of the poller, the probe that picks the adapter and the parsing of the payload: what
  they decide is which requests are made and what a client record says, not a state.
* Of the bot, texts, buttons and the grammar of durations, and updates of other kinds,
  which are recorded and ignored; the allowlist is read at start.
* Of the reminder, its sending: it keeps no state, so that a failed one is not retried.
* Of the day ledger, reasons and notes; of the web pages, everything but the operations
  behind their forms and the numbers they show.
