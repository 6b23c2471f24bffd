# TLA+ models of watch-deal-tracker

watch-deal-tracker collects watch listings from Reddit and from a licensed
Chrono24 feed, keeps them in SQLite, values and scores them, and publishes CSV
and Markdown files. This directory holds TLA+ models of its behaviour, TLC
configurations, and TLAPS proofs. Paths below are relative to the repository.

## 1. Inventory

| Part | State | Operations | Interacts with |
|---|---|---|---|
| Daily pipeline `src/watch_tracker/pipeline.py` | run and source-run rows, counters of one run | `run`: lock, create run, resume erasures, daily backup, collect per source, erasures again, analyse, export, finish run; as `discover`, `refresh-status`, `value` or with one source only some of it | everything below; holds the application lock |
| Repository `database/repository.py` | listings, status and price history, aliases, observations, comparables, valuations, scores, `erasure_events`, runs, errors | upsert a candidate, reconcile missing offers, purge a deleted post, queue/complete/fail erasure events | pipeline (one transaction per batch, one savepoint per record) |
| Backups `database/backup.py` | files `watch_market_<label>_<time>.sqlite`, temporaries | copy + verify + install + expire, purge | pipeline, `backup`, `migrate` |
| Secure erasure `database/secure_erasure.py` | SQLite pages, WAL, sidecars | checkpoint, VACUUM, checkpoint | pipeline |
| Exports `services/exports.py` | three current and two dated files, temporaries | read all rows, replace five files one by one, purge | pipeline, `export` |
| Command line `cli.py` | none | `run`, `scheduled-run`, `backup`, `export`, `migrate`, ... | file lock; reads the last runs without it |
| Health `health.py` | none | judge runs, files, pending events | reads the database without the lock |
| Reddit client `sources/reddit.py` | token, time of the last request, request count | `discover` (pages), `refresh` (batches of 100), retries and pacing | pipeline |
| Chrono24 feed `sources/chrono24.py` | feed file | parse, refresh | pipeline |
| Valuation, scoring `services/` | valuations, comparables, scores | weighted percentiles, caps | pipeline (`_analyze`) |
| Exchange rates `services/fx.py` | cached rates | cache, provider, bounded fallback | ingestion, analysis |
| Installer `operations/install_macos_runtime.sh` | release directories, symlink, launchd job | build, migrate, switch, clean up | holds the application lock |
| Configuration, logging, identity, models, migrations | files and declarations | parsing, validation | all |

Hard behaviour, and what makes each part correct:

* **Erasure** (crash recovery, ordering, several processes, partial failure):
  content a source asked to erase must not survive in the database file, a
  backup or an export once the event is complete; a crash anywhere must leave
  an event that the next run resumes; a restore must not bring content back.
* **Listing lifecycle** (sequences of observations): status, `is_sold`, price and
  append-only history stay consistent; an unknown status never replaces a known one.
* **Pipeline outcome** (partial failure): one failing source withholds ranked
  exports but not other sources' data; a run row is always finalised.
* **Scheduling** (interleaving, stale reads): one successful daily run per local
  date; retries after transient failures; health turns red when runs stop.
* **Reddit client** (timeouts, retries, pagination): pacing and request budget
  hold, loops end, deletions are never inferred from absence.
* **Valuation, scoring** (stale reuse, references between tables): a valuation is
  used again only while its inputs are unchanged and it is fresh; every score
  names the valuation it was computed from; an erasure reaches both.
* **Installer** (crash between steps, signals, jobs at work): the active symlink
  always points at a complete release, no code meets a database older than it
  knows, and a service that was stopped is loaded again.

## 2. Modules

| Module | Subject | With |
|---|---|---|
| `ErasureContract` | what an erasure promises | |
| `ErasureWorkflow` | erasure, backups and exports, step by step | implements `ErasureContract` |
| `ListingHistory` | listings, their history and collection | |
| `Scheduler` | when runs happen, how health judges them | |
| `ReportContract` | what the published files promise | |
| `DailyPipeline` | runs over several sources, analysis, publication | implements `ReportContract` |
| `ValuationReuse` | valuations, comparables, scores, purges | |
| `RedditClient` | pages, batches, token, retries, budget | |
| `Installer` | deployments beside the commands they replace | |
| `MC...` | instances for TLC | |
| `...Proofs`, `Extremes` | theorems; a fact about bounded sets | |

The modules share no variables. What one abstracts from another is named in its
header: `ErasureWorkflow` reduces a listing row to the data an erasure
distinguishes, `ListingHistory` gives the row its content, `Scheduler` reduces a
run to its beginning, its collection and its end, `DailyPipeline` gives the run
its steps and reduces an erasure to what it does to the files, `ValuationReuse`
opens the analysis, and `RedditClient` one source's collection.

All of the planned modules are written, and every safety property the passing
runs check is also a theorem, as are the two refinements. What could still be
added: percentiles and score caps as operators against a reference definition,
duplicate groups and the cache of exchange rates.

## 3. The erasure workflow

`ErasureWorkflow` models what happens from the moment Reddit reports a deleted
post, or a deleted author of a post whose text is kept, to the completed event.

| Model | Code |
|---|---|
| `row[l]` | what a listing row and everything that hangs on it hold: nothing, all (`stored`), all but author data (`authorless`), a tombstone (`purged`) |
| `event[<<post, type>>]` | `erasure_events.status`, `none` when there is no row |
| `residue` | erased bytes still in pages, WAL or sidecars |
| `backups`, `exports` | files in the two directories, with labels, interrupted temporaries and dated files; a backup carries the table and the events it was copied from |
| `gone` | history variable: data erased at the source's request and not stored again |
| `lock`, `pc[p]` | the file lock, and the next step of each process |
| `batch`, `held`, `found`, `resume` | locals that live across steps: the event ids, the rows an export has read, the deletions a refresh reported, and where the workflow returns to |

A run goes `check` → (`dailyCopy`, `dailyInstall`) → `discover` → `refresh` →
`deletions` → `check` → `publish` → `finish`; whenever `check` finds a pending
event it takes the detour `purgeBackups` → `purgeExports` → `scrub` → `sanitize`
→ `freshCopy` → `freshInstall` → `complete` → `rescrub`. One action is one
commit or one file operation of the code. `StepRaises` is an exception at any of
these points, with the cleanup of its handlers; `Crash` is the death of the
process, which frees the lock and may leave temporary files. `backup`, `export`
and `migrate` take the same lock; the first two refuse while an event is
pending, `migrate` does not ask. Reddit's side (posts removed, approved again,
authors deleted) and the operator's restore, which docs/operations.md allows
only when no erasure is pending, are external actions.

A row is abstracted to the two kinds of data an erasure distinguishes. Every
export file is taken to hold every row read for it, which is more than
`watch_active_deals.csv` or the report really hold. The number of backups kept
per label is a choice between keeping and expiring the older ones. A backup
holds the committed tables only: it does not copy the WAL, and
`secure_delete` clears pages. Which offers a response contains is any subset of
those of posts that are up, since sellers edit posts and records may be rejected.

### Properties and runs

| Property | Meaning | Run |
|---|---|---|
| `TypeOK` | types, export never counts below zero files | `MCErasureOffers` |
| `ErasureAccounted` | erased data that survives anywhere on disk belongs to a pending event | `MCErasureShared` |
| `ErasedStaysErased` | no restore brings erased data back | `MCErasureShared` |
| `ReopenedOnlyForNewData` | a completed event is reopened only for data erased in that step, or by a restore | `MCErasureShared` |
| `CompletionHasReplacements` | an event completes over fresh unranked exports and a fresh backup | `MCErasureOffers` |
| `ImplementsContract` | the workflow implements `ErasureContract` | `MCErasureOffers` |
| `PendingIsCompleted` | a pending event is completed | `MCErasureOffers` |
| `AuthorEventErasesWholePost` | a completed author erasure leaves no author data of the post (fails) | `MCErasureAuthor` |

Bounds. `MCErasureShared`: one offer, two processes, all commands and restores,
two export files (one dated) and one fault; two processes suffice to interleave
any two commands, and an offer's content does not interact with another's.
`MCErasureOffers`: one process that runs the pipeline and takes backups, two
offers of one post, so that deletions and author erasures overlap and queue
several events, two files and one fault; the five files of the code differ only
in being dated or not. Here backups compete with runs for the lock. Deadlock is
checked everywhere.

Fairness. `WF(Work(p))`: a process that holds the lock goes on unless it
crashes; no step waits for another process. `SF(StartRun)`: launchd starts the
run every 30 minutes and at login, without end, so it cannot for ever meet the
lock taken, though a backup may come first any number of times. Faults are bounded by `MaxFaults`: a database that raises at every
attempt is never erased, and the code does not promise otherwise.

`MCErasureAuthor` is expected to fail. An author erasure works on the one offer
a candidate resolves to (`repository.py` 576-662), but its event stands for the
whole post. An offer the current text of the post no longer yields is only
marked Unavailable; it keeps its author data when the event completes, and no
later refresh erases it. `docs/data-dictionary.md` 63-65 promises more.

### Proofs (`ErasureProofs`)

For any sets of posts, offers and processes and any bounds (assumptions:
`ConstantsAssumption`): `TypeCorrect`, `InductiveInvariant`,
`ErasureAccountedAlways`, `ErasedStaysErasedAlways`, `RegenerationIsSound`,
`ReopenedOnlyForNewDataAlways`, `CompletionHasReplacementsAlways`,
`WorkflowImplementsContract` and `ContractKeepsPromise`.

`ErasureAccounted` alone is not inductive: that completing the events is safe
depends on what the steps before have cleaned, on the rows a writer still holds
in memory, and on nobody else having written in between. `IInv` adds exactly
these: `LockInv` (who is at work holds the lock), `HeldInv` (rows in memory are
never erased ones), `BatchInv` (the event ids cover everything pending),
`PurgeInv` (after each purge, backups, exports, pages are clean), and `DataInv`,
which is the property itself in terms of `Settled`, the erased data no pending
event covers. Lemma `StepIInv` reduces a step of one process to its own program
point; `RewriteData` with `IngestCovered` and `PurgeCovered` shows that
collection never settles anything, `MarkCompleteIInv` is the step where data
becomes settled.

What the workflow puts in the place of what it purged needs an invariant of its
own. `ReplacementInv` says, step by step, what has been regenerated: an export
writes the rows of the table (`held`), the files written so far exist and are
unranked, the temporary copy is of the present rows, and before completion there
is a backup of them. A writer between two files is only safe because the lock
keeps everyone else from the rows, so the invariant is about the steps of the
process at work and needs `LockInv` for all others. `CompletionHasReplacements`
follows from its last line. The refinement maps the workflow's variables to the
contract's `Pending` and `Copies`; `StepImplements` shows that each step is a step
of the contract or a stutter: copies are made of present rows or of copies
(`CopiesOf`), and pending events go only when `IInv` has them settled. The contract
itself keeps `Promise`, so the promise does not depend on how it is fulfilled.

Only model-checked: `PendingIsCompleted`, which is liveness.

## 4. The listing table and its history

`ListingHistory` models the collection steps of a run for one source and what
`Repository.upsert_candidate` does with each record.

| Model | Code |
|---|---|
| `db[l]`, `txn[l]` | a row of `listings` with its `listing_status_history` and `listing_price_history`, as committed and as the open session sees it |
| `asked`, `deleted`, `returned`, `last` | what the refresh has still to ask, and what `RefreshResult` reports: deleted posts, returned posts, the last candidate of each offer |
| `run`, `step`, `reads`, `errors` | the run, its transaction, records read in it, and whether an error was counted |

`StartRun` opens discovery; `DiscoverPost` and `RefreshPost` read one post, in any
content it may have at that moment, and `Ingest` its candidates, each in a
savepoint: `Rejects` says which ones the unique constraints
`uq_status_history_run` and `uq_price_history_run` or the tombstone refuse.
`CommitDiscovery`, `CommitRefresh`, `ApplyDeletions` and `Reconcile` are the
commits of the four transactions. `Stop` is an exception or a crash, which rolls
the open one back. `Upserted` is the whole of `upsert_candidate` for the fields
above; `MarkedUnavailable` and `Purged` are those of
`reconcile_missing_source_children` and `purge_deleted_reddit_ad`.

The source has no memory: a post may have any content each time it is read,
which covers edits, shifting pages and a post deleted and approved again.
`Readings` and `PostContents` restrict it to what `parse_post` and
`Chrono24Source._parse` can yield: a Reddit post never states a foreign currency it
did not parse, and only sold offers have a sale price there. Left out are the
descriptive fields, observations, aliases, duplicate groups, the row for an all-in
price and the currency of a sale price.

| Property | Meaning | Run |
|---|---|---|
| `IInv` | the inductive invariant: types; in the committed table and in a session, chained history, evidence for a sale, a row for each price, bare tombstones | `MCListingFeed` |
| `HistoryIsChain` | the status history is a chain that ends in the current status | `MCListingReddit` |
| `SuccessReflectsSource` | a run without errors has brought the table to what the source said last | `MCListingReddit`, `MCListingFeed` |
| `TombstoneIsFinal` | no step refills a tombstone | `MCListingReddit` |
| `SoldIsEvidenced` | a sale flag rests on an observed sale, and a sold listing has it | `MCListingFeed` |
| `RepeatIsQuiet` | the same reading again in a run is neither rejected nor written | `MCListingFeed` |
| `ConversionIsOfLatestPrice` | the USD amount belongs to the latest price (fails) | `MCListingUsd` |

Bounds. Two runs, so that what one run commits meets the next one's
observations; one or two records a transaction, which gives up to two readings in
discovery and two in the refresh, enough for a status that goes there and back
in one run. Two offers of one post where offers disappear from a post; offers of different posts do not
interact. `MCListingFeed` has one amount, stated with or without its currency and
converted or not: a price that loses its currency is a changed one. With a second
amount the table does not fit TLC; the theorems hold for any amounts.
A Reddit post may be found with the status Removed, which the code tells from a
deleted one when its text is "[deleted]" with blanks around it.
In `MCListingReddit` Pending stands for all three statuses of an offer that is
still up, which no rule of the Reddit path treats differently; Pending to Removed
stands for a change between two of them.
The system may stop after the last run, so deadlock is not checked.

`MCListingUsd` is expected to fail, against `docs/data-dictionary.md` 35-36: price
columns are replaced one by one (`repository.py` 567), so an edited price without a
currency keeps the currency and the USD conversion of the earlier price. A
consequence the run does not show: as the stored currency then never equals the
missing one, a second reading in the same run is a change again
(`repository.py` 704-718), violates `uq_price_history_run` and makes the run
Partial; this is why `RepeatIsQuiet` speaks of prices with a currency.

### Proofs (`ListingProofs`)

For any posts, offers, amounts and bounds: `RowsAreSound` (`IInv`),
`HistoryIsChainAlways`, `SoldIsEvidencedAlways`, `PriceIsRecordedAlways`,
`TombstoneIsFinalAlways`, `RepeatIsQuietAlways`. The properties of the committed
table are not inductive, since a commit copies what a session has built from it:
`RowsInv` states them of `txn` as well, and that a session leaves tombstones as they
are, because `Rejects` refuses any candidate for one. The argument is per row:
`UpsertKeepsRow`, `StoredKeepsRow`, `PurgeKeepsRow` and `MarkKeepsRow` show that
each operation keeps `RowInv`; `IngestKeeps` and `TableStep` lift them to the tables
and `StepInv` to the steps. `RepeatKeepsRow` is the lemma about operators behind
`RepeatIsQuietAlways`.

`SuccessReflectsSourceAlways` follows a run through its four transactions. When it
has finished, what the source said is known only from `last`, `deleted` and
`returned`; `SourceInv` says what the session already makes of them at each step.
`SessionInv`: between transactions the session is the committed table.
`AnswersInv`: a post is returned or deleted, never both, and no longer asked for,
without which applying deletions could undo what was refreshed after them.
`ReflectInv`: while no error is counted, every row agrees with its last candidate
from the refresh on, deleted posts are tombstones once deletions are applied, and
missing offers are closed at the end. `Rejects` matters here: a rejected candidate
leaves its row as it was and must therefore count as an error.

## 5. Scheduling and health

`Scheduler` models when runs happen and how the table of runs is judged.

| Model | Code |
|---|---|
| `runs` | the table `runs` in the order of creation, with mode, source outcome and readiness fingerprint from the summary |
| `settings`, `feed` | configuration and secrets, and the state of the authorized feed file, on disk |
| `pending` | `has_pending_erasures` |
| `lock`, `pc[p]`, `job[p]` | the file lock, the step of each process, and its locals: mode, `as_of`, loaded settings, run id, outcome |
| `now`, `LocalDate` | the clock and the date in the configured time zone |
| `events` | manual commands, faults and changes so far |

`Schedule` is `scheduled-run` up to `DailyPipeline.run`, `Due` its guard. `Begin`,
`Refused`, `Collect` and `Finish` are a run; `Fail` is the handler of
`_persistent_run`, `Crash` the death of a process or of that handler. `Hold` and
`Release` are the commands that only take the lock. `Reconfigure` is an operator
who edits the configuration or delivers the feed. `Healthy` is the judgement of
`_database_run_health`; the checks of files, disk space, permissions and the
installed release, which need no history, are left out, as is its tolerance of
five minutes for clocks that differ. The outcome of collection depends on
settings and feed as `Readiness` says, or is `transient`: some source failed or a
record was rejected this once. `Readiness` is `ready`, `gated` (every source without
permission), `mixed` (one source gated or failing beside one that works) or
`failing` (none works, or none is enabled); the last two are `Lasting`: they end a
run Partial or Failed with no fault or change, as often as it is started.

| Property | Meaning | Run |
|---|---|---|
| `IInv` | types; the process at work holds the lock and its row is the last one and Running | `MCSchedulerSafe` |
| `FinishedIsFinal` | a finished row is never written again | `MCSchedulerSafe` |
| `HealthyMeansCollected` | green vouches for a recent full run that found all sources ready | `MCSchedulerSafe` |
| `NoHammering` | beyond one run a date, each run is explained by an event or met a source in lasting trouble | `MCSchedulerSafe` |
| `DayGetsOutcome` | when events end, the date gets its outcome under the present configuration, unless that is one of lasting trouble | `MCSchedulerSafe` |
| `ErasureIsResumed` | a pending erasure is resumed | `MCSchedulerSafe` |

Bounds. Three instants, the last of them on a date of its own, one user beside
launchd (two processes give every interleaving of guard, lock and rows), two
configurations (the feed alone, or Reddit besides with credentials that are
rejected), two states of the feed file, which make all four outcomes, and two
events. Daily runs under a configuration in lasting trouble would go on for ever;
`MaxLasting` cuts them off after two, enough to have them before and after a run
that settles the date. The clock stops at the last instant, which only
makes the last date long enough. `Stuck` and `Stale` are zero and one instants. A
command works for the present instant or an earlier one. With `--as-of` in the
future, which nothing refuses, that run stays the latest one and scheduled runs
repeat until its date; the instance leaves this out.
Deadlock is not checked: when the day's outcome is there and the
bounds are used up, the system stops.

Fairness. `WF(Schedule)`: the launchd job has `StartInterval` 1800 and
`RunAtLoad`, and the guard, once it lets a run pass, does so until something
changes. `WF(Proceed(p))`: a process goes on; no step waits for another, since
runs take the lock without waiting. Events are bounded: if sources fail for ever,
the date never gets its outcome, and the code does not promise it.

The model reaches behaviour a reader should know of. `scheduled_run` looks at the
latest daily run that is Success or Partial (`cli.py` 283), so that a later Partial
run hides a success of the same date and the date is collected again;
`docs/operations.md` 5-7 reads as if a success were enough. The guard is read
before the lock is taken, so a manual run that ends in between is repeated
(`NoHammering` counts it). The row of a run that crashed stays Running and keeps
health red for ever. The fingerprint of a run is taken when it ends, so a feed
delivered while it works is not retried on that date: `HasOutcome` accepts a run
whose stamp is later than what it has read. With one source gated or failing and
another one ready runs stay Partial, with no source enabled they stay Failed
(`pipeline.py` 286-291, 440-446), and they are repeated every half hour, as
`docs/operations.md` 7-9 says and the comment at `cli.py` 305-306 does not. Both
properties say so: `NoHammering` counts only `Accountable` runs, and
`DayGetsOutcome` promises nothing under such a configuration.

### Proofs (`SchedulerProofs`)

For any users, settings, time zone and bounds: `RunsAreOwned` (`IInv`), `OneRunAtWorkAlways`, `FinishedIsFinalAlways`. `IInv` is
inductive: `LockInv` gives that at most one process is at work; `RowInv`, that its
row is the last and still Running, survives because nobody can append a row
meanwhile (`NobodyElse`); `JobInv` says that a command remembers typed values, which
makes the row of `Begin` and the fingerprint of `Finish` well-typed.
`FinishedStays` derives the action property: a step writes at most the row of a
process at work.

`HealthyMeansCollectedAlways`: `CollectedInv` carries what a run has seen from
`Collect` over `Finish` into its row, where it outlives changes of configuration.

`NoHammeringAlways` has a hypothesis, `ClockIsHonest`: dates do not go back, and
commands do not work for the future. The first can fail only where the clock is
set back past midnight or the configured time zone changes; the second is the
hazard of `--as-of` named above (`cli.py` 81), where the property is false. TLC
evaluates it on the instance (`InstanceIsHonest` in `MCScheduler`). A bound on the
number of accountable runs is not inductive, since a guard that has been read may lead to a
run much later: `HammerInv` adds to the runs there are those still `Owed` without
a further event or date. A user's command that has not begun owes two, its own and
the one of launchd that it may provoke; a user at work owes one; launchd owes one
while the date has no outcome, and two if the run it has already decided on will
not be the outcome (`Lost`): because settings changed since it loaded them, the
date is over, a later daily run exists, or a source failed. One of these is taken
off while a user's run is at work that answers for it (`Backed`). `StartInv` gives
that rows start when their commands say. Each kind of step has a lemma (`BeginPays`,
`FinishPays`, ...) showing that what it adds to runs and debts is covered by what
it takes away, by the event it uses up, or by the new date.

`DayGetsOutcome` and `ErasureIsResumed` are liveness and only model-checked.

## 6. The daily pipeline and the published files

`DailyPipeline` models one persistent run after the other, over any number of
sources, and the `export` command between them.

| Model | Code |
|---|---|
| `runs`, `args`, `status` | rows of `runs`: command with its mode, selected sources, local date, status |
| `sourceRun[<<r, s>>]` | `source_runs.status` |
| `held[s]`, `score[s]` | the last run that stored records of a source, and that scored all its active listings |
| `pending` | an erasure event is pending |
| `files[f]` | the three current files and, per local date, snapshot and report; a file holds which run wrote it, on whose behalf, ranked or not, and whether all it shows is scored by that run |
| `pc`, `then`, `content`, `next`, `flawed` | the step of the process at work, where it goes after an erasure, the rows an export has read, the next of its five files, `counts["errors"] > 0` |

`Begin` takes the lock and commits the row. `NoErasure`, or `Purge` of one file
after the other, `Sanitize`, `Write` and `Complete`, are
`_process_pending_erasures`, before collection and after it. `Collect` is the
turn of one source, which is Successful, Partial, refused or Failed and may
report an erasure. `Withhold`, `Analyze` and `Publish` follow the conditions at
`pipeline.py` 411-438, `Write` replaces one file, `Finish` derives the status and
`Abort` is the handler of `_persistent_run` or the death of the process.

| Property | Meaning |
|---|---|
| `RankedRunsAreWhole` | a ranked file of a run stems from a collection in which every selected source was Successful and from an analysis in which nothing failed |
| `SuccessIsPublished` | a run on record as Success has its files in place, or those of a later one |
| `ReportComesLast` | a report stands beside the four tables of its export or of a later one, wherever a process was killed |
| `KeepsContract` | the files change only as `ReportContract` says: ranked views of complete collections, nothing ranked while an erasure is pending, nothing from before it afterwards |

`MCPipeline` has two sources, one date, two runs and one use of `export`: two
sources are enough for one to fail while the other comes through, and two runs
for a later one to meet the files of an earlier one. `discover` and
`refresh-status` differ from `run` only in the daily date guard and are proved
about but left out of the instance. The system stops when the bounds are used
up, so deadlock is not checked.

`value` and `export` regenerate ranked files from what is committed, also after
a run that withheld them; `ReportContract` therefore knows "regenerated" views,
which `docs/architecture.md` 51-52 does not mention.

### Proofs (`PipelineProofs`)

For any sources, dates, runs and exports: `PipelineIsSound`, `TypeCorrect`,
`RankedRunsAreWholeAlways`, `FailureIsIsolatedAlways` (a source that came through
keeps its records whatever becomes of the others), `SuccessIsPublishedAlways`,
`ReportComesLastAlways` and `PipelineKeepsContract`. `IInv` adds to the
properties what connects them: rows are in order and the process at work owns the
last (`RowsAreInOrder`), all that went wrong in collection is counted
(`CollectionIsCounted`), the files an export has written are those of its content
(`ExportIsAtWork`), files in place are of runs begun (`FilesAreOld`), and what is
about to be recorded as Success has been published (`PublishedFirst`). Each part
has a lemma of its own for a step. For the refinement, each step maps to
`Publish`, `Withdraw`, `Request`, `Complete` of the contract or to a stutter.

## 7. Valuations and scores

`ValuationReuse` models `_analyze`: which open listings are valued anew, which
keep their last valuation (`_valuation_needed`), the scores that name the valuation
they used, and what `purge_deleted_reddit_ad` and an author erasure take away.

| Model | Code |
|---|---|
| `rows[l]` | the watch offered, the asking price in its own currency and in USD, the sale price, and the three times `_valuation_needed` compares |
| `valuations`, `comparables`, `scores` | the tables; `id` is SQLite's row number, which is given out again after deletions; `basis` of a score is history: the valuation it was computed from |
| `method`, `asOf`, `run`, `step` | configured method version, instant of the run |
| `backdated`, `drifted`, `renamed` | history: a run went back in time; when a price of a listing in USD last changed without a date, and when its watch was last replaced |

| Property | Meaning |
|---|---|
| `IInv` | types; numbers are unique; comparables record what each valuation used; and the next two |
| `ScoreHasItsValuation` | the number a score stores still finds the valuation it was computed from |
| `ErasedEvidenceIsGone` | no valuation, comparable or score rests on an erased listing |
| `ScoresAreCurrent` | what a run scores with is of the configured method, fresh, and knows present USD prices and evidence, but for undated changes |
| `NewEvidenceIsUsed` | what a run scores with knows all present evidence (fails) |

A record states a price in its currency, and the rate of the day converts it.
`upsert_candidate` replaces the USD price whenever there is a rate (`repository.py`
566-568), but dates a change only if the price differs in its own currency
(704-718, 739-740), and it replaces reference, brand and model without a date
(535-538). So `ScoresAreCurrent` excepts what the code cannot know. Runs given
earlier instants leave times the comparison cannot order (`backdated`). A USD price
that follows the rate, or a sale price disclosed or converted anew in a later run
than the sale (677-691), changes no time that is compared (`drifted`); nor does
another watch (`renamed`). Valuations resting on the old value are used until they
expire. Each exception holds only for the listing it happened to, and only for
valuations made before.

`MCValuation` has two listings, two watches of which one is evidence of both, two
prices and rates, three runs at given instants (later, earlier, equal), two records
in the first run and one in each other, two methods and a refresh interval of two:
a valuation is used again, expires, is overtaken by evidence or by a change that
shows no date, is purged from either side, and its number is given out again.
Methods are symmetric. Runs end at the bound, so deadlock is not checked.

`MCValuationNews` is expected to fail, against `docs/scoring-methodology.md` 38-39
("Valuations are recalculated when ... new matching evidence arrives"). One watch,
one rate, three days: a listing is first seen sold without a price; the other one
is valued on empty evidence; the sale price is disclosed and becomes evidence, but
the valuation is used again. Drifting rates and corrected watches break the
property the same way; this run leaves them out to show the plainest case.

### Proofs (`ValuationProofs`)

For any listings, watches, prices, rates, methods, instants and runs: `TablesAreSound` (`IInv`),
`ScoresKeepTheirValuations` and `ErasureReachesTheAnalysis`. The argument for the
purge: a score it spares uses a valuation of no affected analysis, so the
valuation is kept; the comparables say which analyses are affected, because each
valuation has recorded its evidence (`Keyed`). The next number is larger than
every number in use (`NextIdIsNew`, with `Extremes`), so no new valuation takes the
place of one a score names.

`ScoresAreCurrentAlways` is about reuse: the analysis looks at times only, and the
property is about values. `FreshInv` (`ReuseIsInformed`) connects the two: as long as
runs go forward, each valuation on record either knows the present USD price of its
listing and the present evidence from a match, or a time of that row is later than
the valuation, or that row has drifted or been renamed after it. `ReadRow` lists
what one record can change with and without a date (`ReadKeepsKnown`); the run that
dates it must be later than every valuation, which is why runs that go back
(`backdated`) are excepted. A
purge removes evidence without dating anything; `PurgeKeepsFresh` uses that the
valuations it rested on are removed with it. `NotNeeded` turns the refusal of
`_valuation_needed` into what the reused valuation knows, and `ScoredOnce` keeps
scores of earlier runs apart from those just made.

## 8. The Reddit client

`RedditClient` models a run of the Reddit source, one exchange with the server
per step: discovery pages by cursor to the start of its window, refresh asks for
all stored posts in batches, and both share token, retries and the budget of
requests. Posts are numbered as they are created. The server creates and deletes
posts between any two requests, keeps some posts on the first page, is busy,
refuses, or lets the token expire; the process may be killed. As a fault, an answer
to a page may lack any of its posts, contain unreadable ones, and carry no cursor
or any cursor, seen or unseen; an answer to a refresh may omit posts. Which posts
are pinned (`Sticky`) does not change.

| Property | Meaning |
|---|---|
| `TypeOK` | types; no run sends more requests than `max_requests_per_run`, token and retries included |
| `DeletionIsNeverInferred` | only posts that are gone are reported or purged |
| `SuccessReadsTheWindow` | a Successful run has stored every post of its window that was neither deleted, pinned nor withheld by an answer; without a fault none is withheld |
| `SuccessPurgesDeletions` | a Successful run has purged what was gone when its refresh began, unless the server left it out |
| `DeletionIsPurged` | a stored post that is deleted at the source is purged in the end |

`discover` takes any 200 answer without a cursor for the end of the listing, also an
empty one (`reddit.py` 390-391, 432-434), and follows any cursor it has not seen. A
run whose window is cut short so is Successful. `withheld` is the history of it: the
posts of the window an answer left out, or passed over by its cursor. The property
says that nothing else is ever lost, whatever moves between two pages. No document
promises that such an answer is noticed.

`MCRedditClient`: four posts, one of them pinned, pages of one post, three pages,
batches of two, six requests, one retry, one fault. Pages of one post let posts
move between any two pages; two batches let a failure fall between them. Runs are
repeated for ever, so deadlock is checked and cannot occur.

Fairness. `WF(Step)`: the scheduler starts a run every day and a run goes on.
Faults are bounded. `DeletionIsPurged` holds under `Fits`, the condition that a
run without faults stays within its budget, because `listings_for_refresh`
selects every stored post: beyond it every refresh raises and no deletion is
learnt any more. No document bounds the number of stored posts.

Left out: the pauses between requests (the token request and requests that time
out are not counted by them), posts approved again after a deletion
(`ListingHistory` has them), and the missing approval, which refuses a run at
once and is an outcome in `DailyPipeline`.

### Proofs (`RedditProofs`)

For any posts, limits and faults: `ClientIsSound` (`IInv`), `BudgetIsKept`,
`DeletionIsNeverInferredAlways`, `SuccessReadsTheWindowAlways`,
`SuccessPurgesDeletionsAlways`. `Progress` is the strengthening: a discovery
without a failure has found all of its window down to its cursor, except what was
withheld (`NothingWithheld`: nothing, without a fault), and a refresh
has learnt, or has still to ask for, all that was due. `DeletionIsPurged` is
liveness and only model-checked.

## 9. The installer

`Installer` models `operations/install_macos_runtime.sh`, command by command where
order matters, beside the jobs it shares the runtime with: the scheduled run of
launchd and a user's `run`, `export` or `migrate`.

| Model | Code |
|---|---|
| `dir[r]` | `releases/<hash>`: absent, without or with its `.incomplete` marker, whole, damaged by something else |
| `current`, `head`, `db`, `plist` | the link, the newest script in the shared migrations directory, the revision of the database, the installed property list |
| `lock`, `loaded` | application lock, service known to launchd |
| `pc`, `target`, `built`, `staged`, `stopped`, `committed` | the script and its shell variables |
| `job[j]` | release, command and state of each job at work |

`Start` to `Bootstrap` are the commands of the script, `Cleanup` is its trap.
`Fail` is a command that fails (`set -e`), `Signal` runs the trap and lets the
script go on with the next command, as zsh does for a trap that returns; `Kill` and
`PowerLoss` run nothing. `Stuck` names the commands that cannot succeed any more
after a trap has taken away what they need. `Check` is `assert_at_head`, which
`run` asks before it waits for the lock and `backup` and `export` under it.

| Property | Meaning |
|---|---|
| `TypeOK` | types; the database is never ahead of the scripts |
| `ActiveIsPublished` | `current` names a completed release that is still there |
| `SchemaIsNeverBehind` | no active release, and no code at work, knows more than the database |
| `CommittedIsRunnable` | after a committed deployment the service is loaded and its runs pass |
| `NothingMovesUnderARun` | scripts, database and link stand still while a command works |
| `PublishedIsImmutable` | a published release is not changed; a damaged one is moved aside only if it is not active |
| `ServiceReturns` | a deployment that stops the service ends with it loaded, unless killed without its trap |

`MCInstaller`: two releases with two migrations between them, deployed in any
order, and three faults: one to leave something behind, one to disturb the
repair, and one more. Deadlock is not checked: with faults used up and nobody
starting anything the system rests. Fairness: `WF(Deployment)`, since the commands
of the script end and its wait for the lock is limited to 60 seconds; nothing
makes anyone start a deployment.

What the model takes for granted: a child of a killed script keeps the inherited
lock descriptors, so the locks are free only when it has ended; launchd accepts
the property list of a service that is not loaded. What it shows besides: scripts
are shared by all releases, so after a failure between migration and switch the
old release goes on with a newer schema; after one between the copying of the
scripts and the migration the service is loaded again, but `assert_at_head`
refuses its runs until someone migrates. The refusal when `current` is not a link
and the merging of configuration files are left out.

### Proofs (`InstallerProofs`)

For any releases, revisions and faults: `InstallerIsSound` (`IInv`), `TypeCorrect`,
`ActiveIsPublishedAlways`, `SchemaIsNeverBehindAlways`, `ExportIsAtHeadAlways`
(`backup` and `export` work at the head of the scripts only),
`CommittedIsRunnableAlways`, `NothingMovesUnderARunAlways`,
`PublishedIsImmutableAlways`. `IInv` relates each step of the script to what it may
rely on: that the target is whole from `stop` on, that the lock is the script's
from `copy` to `switch`, and that the database has the target's revision from
`switch` on. `ServiceReturns` is only model-checked.

## 10. Not modelled

The parts marked `not_modelled` in PROJECT.json, and what the notes of the others
leave out. Parsing of posts and feeds, identity, configuration, logging and the
wording of reports are data transformations without state. Percentiles, score
points and caps are arithmetic on one list; the cache of exchange rates is a
function of stored rows, the clock and one network answer, and no other part
decides by its value. SQLite's and the file lock's own guarantees are assumed. An
operator who restores while an erasure is pending, against the documentation, is
not covered, nor is the quarantined copy of the old database a restore leaves.

Beyond the prover's reach: liveness under fairness (`PendingIsCompleted`,
`DayGetsOutcome`, `ErasureIsResumed`, `DeletionIsPurged`, `ServiceReturns`), which
TLC checks. Every other property of the passing runs is proved for all values of
the constants. The inductive invariants were checked by TLC on the instances of
the runs before they were proved; those no run lists (`ReplacementInv`,
`CollectedInv`, `StartInv`, `HammerInv`, `SourceInv`, `FreshInv`) are stated at the
end of their modules, and their theorems show what they give.

## 11. Seeded faults

Definitions named `Bug...` are faulty variants of the definition that follows
them. Substituting one makes the property named with it in PROJECT.json fail; for
instance:

| Seeded fault | Found by |
|---|---|
| a command works while another one holds the lock | `ErasureAccounted` |
| the scrub is left out of the erasure | `ImplementsContract` |
| a tombstone accepts a candidate again | `TombstoneIsFinal` |
| the guard looks at success only | `NoHammering` |
| a gated run satisfies the guard whatever its fingerprint | `DayGetsOutcome` |
| only failed sources withhold an export | `RankedRunsAreWhole` |
| the report is written first | `ReportComesLast` |
| a purge spares scores of later runs | `ScoreHasItsValuation` |
| a valuation from the future is used again | `ScoresAreCurrent` |
| retries do not count | `TypeOK` of `RedditClient` |
| a short last batch is skipped | `SuccessPurgesDeletions` |
| an older release takes scripts back | `CommittedIsRunnable` |
| the trap judges by the link | `ServiceReturns` |
