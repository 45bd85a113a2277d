# Codex Usage Watch: specifications, model checks and proofs

Codex Usage Watch reads the transcripts Codex writes, meters how much of the
user's weekly quota each local five-hour window has used, and shows the estimate
and warnings through three Codex lifecycle hooks.  This directory holds TLA+
modules of the program, configurations that TLC checks, and theorems that TLAPS
proves.  Paths below are relative to the crate (`src/` is its Rust source,
`tests/` its tests, `README.md:n` its user documentation).

- [1. The system](#1-the-system)
- [2. The modules](#2-the-modules)
- [3. What the runs check](#3-what-the-runs-check)
- [4. Disagreements between the code and what is said of it](#4-disagreements-between-the-code-and-what-is-said-of-it)
- [5. What is proved](#5-what-is-proved)
- [6. What is not modelled](#6-what-is-not-modelled)
- [7. Plan](#7-plan)

## 1. The system

There is no daemon.  Codex starts a process for every lifecycle hook, the user
starts others from the command line, and all of them share one state directory:
a SQLite database and `display.json`.  They also share two kinds of file with
programs that know nothing of them: the transcripts, which Codex writes, and
`hooks.json`, which belongs to the user.

| Component | State | Operations | Correct when |
|---|---|---|---|
| Reset classification (`reset.rs`) | none | `compare_window`, `classify_reset`, `inferred_epoch_start` | a quota epoch that changed is seen to have changed, jitter of a deadline is not a change, growth is never negative |
| Replay and store (`persistence.rs`, `window_replay.rs`) | `rate_limit_observations`, `windows`, `reset_events`, `emitted_warnings`, `calibration_profiles` | ingest and rebuild, manual reset, approved calibration | one window is current; a rebuild undoes neither a manual reset nor a calibration; no window meters more than the server reported; the result does not depend on the order in which sessions are ingested |
| Record parsing (`ingest.rs`) | none | `parse_record`, `parse_window` | a record gives a snapshot or a diagnostic, and what it gives does not depend on the slot a window is in |
| Transcript reading (`ingest.rs`, `transcripts.rs`) | `transcript_cursors`: offset, continuity marker, generation | `ingest_transcript`, `discover_recent_transcripts` | every complete line is stored once, also after truncation and rewriting |
| Setup and history import (`setup.rs`, `main.rs`) | none of its own | `preview_history`, `import_history` | every transcript that was there is stored, whatever happens to the others |
| Opening and migrating (`persistence.rs`, `migrations.rs`) | `user_version` | `open_at`, `migrate_to`, `write_config_metadata` | the schema only moves forward; an older program refuses a newer one |
| Hook runs and commands (`hooks.rs`, `main.rs`) | the write lock, `emitted_warnings` | SessionStart, UserPromptSubmit, Stop; `refresh`, `setup`, `reset`, `doctor`, `analyze`, `calibration apply`, `history`, `backup` | a crossing is shown, and once; every run ends |
| Display (`display.rs`, `private_fs.rs`) | `display.json` | `regenerate_display`, `read_display`, `load_or_recover_display`, `load_display_read_only` | the file shows committed data and never goes back; what `status` says of it later is what the database would say |
| Compatibility and profiles (`compatibility_state.rs`, `calibration_state.rs`) | `calibration_profiles`, `compatibility_results`, the active generation | check, inherit, approve | a user's approval wins; a new model is reviewed once |
| Calibration analysis (`calibration.rs`, `calibration_state.rs`) | `calibration_samples`, `calibration_analysis_state`, reports | analyse, write report | a value is recommended only when several analyses with growing evidence agree; the report file shows a report that is on record |
| Accounting engine (`calculate.rs`) | one window, the ids seen | `apply`, `apply_ordered` | it follows the same rule as the store's replay |
| Hook installation (`hooks.rs`) | `hooks.json`, its backup | `install`, `uninstall` | other tools' handlers survive; one own handler at most |
| Backups, private files, model types, packaging | see section 6 | | |

How they interact.  A hook opens the store, reads the transcript it was told of
(cursor and continuity marker before the transaction; rows and cursor inside
it), and in the same transaction rebuilds *all* windows from *all* observations.
Then it projects the current window to `display.json` in a second transaction
that it opens only to exclude other writers.  SessionStart afterwards checks the
compatibility of the identity the transcript carries, analyses the calibration
evidence and perhaps writes a report, each of them reading first and writing in
a later transaction.  Nothing is passed between processes but through the
database and the files.

Where it is hard:

- **Interleaving.** Every decision that is read before a transaction (cursor,
  prior profile, previous analysis, the clock of a manual reset) may be stale
  when the transaction starts.
- **Replay with memory.** A rebuild is not a pure function of the observations:
  ends and calibrations are kept from the rows the previous rebuild left, and
  are found by the start of a window, which an observation that arrives later
  can move.
- **Files written by others** change between two system calls of one read.
- **Failure.** A hook may find the database locked, time out and answer
  fail-open; any process can be killed between its two transactions.
- **Liveness.** A run must end although another program keeps the database; the
  display must catch up; what is in a transcript must be stored in the end.
- **One rule written twice.**  Metering is in the engine and in the replay;
  freshness is worked out from the database and again from the cached file.

The hazards of the code are listed one by one, at the line where each bites and
with the properties that watch it, under `hazards` in `PROJECT.json`.

## 2. The modules

    ResetClassifier ── WindowReplay ── WindowStore ── WindowHistory
          │                  │                              ▲
          │                  └── AccountingEngine           │ (INSTANCE, implements)
          ├── UsageRecord ───────────────────────── WindowDisplay
          └── CalibrationReport ── DriftAnalysis
    HookRuns ── (INSTANCE, implements) ──► DisplayFeed
    CalibrationProfiles      TranscriptIngest      HooksFile

A line means EXTENDS.  Modules named `MC…` fix the constants for TLC; modules
named `…Proofs` hold theorems.  `map` in `PROJECT.json` gives for every
definition the lines of code that it stands for.

**ResetClassifier** is `reset.rs` as operators: the comparison of two quota
windows (same epoch, natural or early change, superseded, missing), the
classification and boundary of a transition, the weekly delta.  Instants are
integers; the wording of the recorded reasons is left out.

**WindowReplay** is one step of `rebuild_windows`: `ReplayItem(replay, item,
preserved, calibration)` accumulates an observation into the current window,
ignores it, or closes the window and opens the next.  The replay record also
says whether two windows were given the same start, which the primary key of
`windows` would refuse.

**WindowStore** is the database and one open write transaction `tx`.
`BeginIngest` inserts a batch and loads the replay, `ReplayNext` replays one
observation, `CommitIngest` writes all tables, `AbortIngest` is the refusal by
the primary key, `CrashInTransaction` the death of the process; `ManualReset`
and `ApplyCalibration` are transactions of one step.  SQLite's IMMEDIATE
transactions exclude one another, so one variable holds whichever is open;
that the manual reset's `now` was taken before the lock was granted is kept
(`LockWait`).

**WindowHistory** states over WindowStore what documents and tests say of the
windows table; several of these turn out not to hold (section 4).
MCWindowHistory adds a history variable to it, `meteredAtReset`: which
observations had been metered when a manual reset was made, which the tables do
not record.

**UsageRecord** is `parse_record` and `parse_window`: from a record with two
slots, each a window of some length or one that makes no sense, to an
observation, a snapshot (only with a weekly window) and the codes of the
diagnostics.

**WindowDisplay** composes WindowStore with what follows a commit.  A call takes
records, stores what parsing makes of them through `Store!BeginIngest`, and
projects the current window in a later transaction, with the clock it read at
its start (`owed`); it may give that up, and the file may be lost and recovered.
`ReadDisplay` is what the tables say at an instant, `StatusAt` what `status`
makes of the cached file.  `Store == INSTANCE WindowHistory WITH Universe <-
Readings(Records)`: the composition implements the store, so every invariant
that is checked or proved of WindowStore holds of the windows that are shown.

**HookRuns** has one action per step of a run: take the lock, migrate, write the
configuration, read a transcript, ingest, project, open again for calibration,
or give up, fail, die.  A process may be any hook or command (`AllRuns`), was
built for one schema (`Binary`), and works through the transcripts it is to
read (`todo`).  Which steps a kind of run takes is in `AfterOpen`, `AfterFiles`
and `Fails`: an error ends a hook and `refresh`, the import goes on with the
next file, `doctor` with its next check.  The windows themselves are reduced to
a version number and to the warnings that a *set* of records makes due.
**DisplayFeed** is what the state directory promises: the display shows the
newest committed version, a database without a schema takes no commits, and the
schema only moves forward.

**TranscriptIngest** is the reading of several transcripts by processes of three
kinds: a hook reads one, `refresh` the newest ones until one fails, the import
all of them, passing over those that fail.  One file is read in steps: take the
cursor, check the marker, open the file and note its length, read line by line,
compute the new marker, commit.  Lengths are counted in half lines, so that an
offset may lie inside a line; a line is named by the order of its writing, which
is also its timestamp, so that a run that began long ago finds it too far in
the future.  A scenario fixes who reads what and how Codex writes: *steady*
appends whole lines at any moment; *quiet* also tears lines and rewrites the
file, though not while a reader is at work; *torn* and *rewritten* do one of
those at any moment.

**CalibrationProfiles** models which value is in force for the identity an
observation carries.  A check has four steps (start, identity, prior, commit), an
approval three; what each read before is in `local`.  The hook ingests the
transcript that its input names, or none (`StartHook`).

**CalibrationReport** is `build_report`: samples grouped by both deadlines,
eligible movements, weighted median.  **DriftAnalysis** runs it in processes
that read the observations, then the previous analysis, then write.  A hook then
asks whether a report is due, inserts its row and writes its file, each a step
of its own (`Schedule`, `InsertReport`, `WriteFile`) between which it may die.

**AccountingEngine** is the in-memory meter, run beside the store's replay.

**HooksFile** is `install` and `uninstall`: read and decide, back up, rename,
with other processes and an editor in between.  A handler is reduced to who
owns it.  What goes through lists of handlers is written as recursive functions
of a position, so that it can be reasoned about.

Abstractions that matter.  Percentages and points are small integers.
Observations form one total order (time, then id), which stands for the order
(time, path, offset).  An observation is in the store or not; the text of a
record is its two quota windows (UsageRecord), a line of a transcript a number.
A weekly-points value that the code computes as a
floating-point number is an integer, rounded down.

## 3. What the runs check

Each run takes less than four minutes.  The passing ones are exhaustive for
their instance.

| Run | Instance | What it shows |
|---|---|---|
| `store` | six observations in two weekly epochs, ingested one by one in any order; the clock passes four instants (4 to 7); one approved value; 881k states | `OneCurrentWindow`, `ResetsHold`, `WindowsNotInverted`, `MeteredWithinWeeklyUse`, `CalibrationAppliesForward` across manual resets, refused rebuilds and crashes between any two steps |
| `history_order_independent` | WindowDisplay over four records (two epochs that end at their deadlines, a slot that makes no sense, two weekly windows in one record whose second, lower one is ignored) in batches of at most two; two calls that may owe a projection, the clock at 11 and 12, one approved value; 775k states | `IncrementalEqualsFull`: the order and the size of batches do not matter; `StatusAgrees`: the cached file, read later, says what the database would; `FreshIsNewest`: nothing is shown as fresh if a record of the same or a later instant made no sense, or a later one was metered |
| `hooks` | two processes of two releases, each any of the nine kinds of run, two transcripts, crossings of two windows, one of which is gone once both transcripts are replayed; a program that locks the database; lock timeouts, failures and crashes; 472k states | `FeedImplemented` (refinement), `LagExplained`, `ReportedOnce`, `CrossingTaken`, and the liveness of `RunsEnd` and `DisplayCatchesUp` |
| `transcript` | two readers, one abort, and four scenarios: two hooks of one session with a steady or a quiet Codex and three lines; a hook and an import that meets a file it cannot open; a hook and a refresh of two files; 263k states | `BehindCursorStored`, `BatchStored`, `ImportComplete`, and the liveness of `EverythingStored` |
| `profiles` | two processes; hooks of two sessions of one plan and two models, of which the one with the new model writes two records, of known or unknown shape, so that an approval may be for the identity that a check inherited to; three checks or approvals; 1.8M states | `ReviewedOnce`, `ApprovalsStay` |
| `drift` | two SessionStart hooks, jittered and late evidence of two windows and of a second identity, of which the openings of the windows were there before; three analyses, two days (0 and 1); 551k states up to the exchange of the two hooks | `CandidateConfirmed`, `ConfirmationEarned`, `FileOnRecord` |
| `engine` | any part of ten snapshots in one batch, or six snapshots of one epoch over and over in any order; 11k states | `AgreesWithReplay`, `MeteredOnce`, `MilestonesIncrease` |
| `file_shared` | two processes, two places, an editor with three saves, eight initial files, four commands; 15k states | `SavesKeptUnlessOverlapped`, `OneOwnHandler` |
| `history_refused`, `history_reset`, `hooks_swallowed`, `transcript_torn` | three observations; two processes; one reader | violated: section 4 |

**Why the bounds are enough to be interesting.**  A unit of time in the store
runs is about half an hour: an epoch is six units, a week twenty, the jitter
one, so deadlines can be equal, within jitter, natural or early.  The six
observations of `store` contain an early change of both epochs, a deadline
that goes missing and comes back, a weekly reading lower than the last and a
weekly rollover; the clock starts when some of them are not yet allowed
(`FutureTolerance`), so that windows are opened and reset before older
observations arrive.  Two processes are enough for every race of the code,
since each reads at most one row before its transaction and one other
transaction in between makes it stale; the third analysis lets the
effect of the race be read.  In `hooks` one of them is a release behind, so that
the schema moves under a run that is at work, and each session reports a crossing
of its own, so that the order of ingestion decides which warnings are new.  In
`history_order_independent` two calls may both have committed and still be to
project, so that they write the file in the wrong order; the clock starts
at the instant of the newest record, so that none is from beyond the tolerance
and every order of the batches can occur; that records come too early for the
clock is part of `store`.  A transcript has up to three
lines: one behind the cursor, one being read, one that arrives later.
In `drift` a report is due
after one new window or one day, so that all three reasons occur within the
bound; the program's own numbers are five windows and seven days.
`MinimumSamples` is one there, and the only evidence before the first analysis
is the openings of two windows, which qualify for nothing: so a late observation
can also take the qualifying windows away again, and confirmations are earned
and lost within three analyses.  Codex starts one SessionStart hook per session,
so two processes run hooks; the `analyze` command does no more than the first
three steps of one.

Deadlock is checked in `store`, `history_order_independent`, `hooks` and
`transcript`, whose systems can always take a step.  The other models stop when
their bounds on commands, records or analyses are used up.

**Fairness.**  `HookRuns` assumes weak fairness of each process's `Step`: a
process that was started is scheduled, and a busy handler that waits for the
lock gives up after its timeout (`BUSY_TIMEOUT`), which is part of `Step`.  That
a hook starts, that Codex writes, that another program releases its lock, and
that a failure occurs have no fairness.  `TranscriptIngest` assumes weak
fairness of a reader that is at work (`GoesOn`), and that hooks start again and
again while a session goes on; nobody has to refresh or import, so
`EverythingStored` speaks only of files that a hook reads.  A reader that was
killed starts again for the same reason.
No other module assumes fairness.

**Mutants.**  Every property of a passing run comes with a change of one
definition, of the kind a programmer makes by mistake (a guard dropped, a kept
value forgotten, a read moved before the lock), under which TLC finds the
property violated.

## 4. Disagreements between the code and what is said of it

Four runs expect a violation.

1. **A replay can be refused for good** (`history_refused`).  README.md:264-265
   labels missing deadlines as ambiguous and goes on.  When a deadline goes
   missing and comes back, the rebuilt windows may have the same start; the
   second INSERT violates the primary key (migrations.rs:51), the ingest rolls
   back, and so does every later one whose replay still gives two windows that
   start (window_replay.rs:279).
2. **A manual reset forgets to forget** (`history_reset`).  main.rs:180 says the
   next observation starts a new window.  The rebuild starts from all
   observations and keeps only the end of the archived window, by its start;
   when the next record carries the server's five-hour deadline the window is
   aligned to an earlier start, the end is not found (window_replay.rs:503), and
   the current window reaches back to observations that had been metered when
   the reset was made: the growth between them is metered in it again, and warned
   of again.
3. **A crossing that nobody is shown** (`hooks_swallowed`).  README.md:90-91
   promises a short message when a warning level is crossed.  SessionStart and
   Stop also ingest and thereby record the warning as emitted; only
   UserPromptSubmit shows new ones (hooks.rs:163-166).
4. **Half a line is skipped** (`transcript_torn`).  tests/ingestion.rs:153 has an
   unfinished final line deferred.  The final line is recognised by the length
   taken when the file was opened (ingest.rs:93-99); when more bytes arrive
   during the read, an unfinished line ends elsewhere, counts as malformed, and
   the cursor moves past its first half (ingest.rs:144).

The following configurations belong to no listed run, and each shows one more
history: `tlc -config <name>.cfg <module>` prints it.

| Configuration, module | Property it refutes | History |
|---|---|---|
| `HistoryRefused` with `WindowsDoNotOverlap` as its invariant, MCWindowHistory | `WindowsDoNotOverlap` (tests/persistence.rs:285) | the server restarts an epoch early; the new window starts at its epoch's start, the old one ends at the boundary, which is later (window_replay.rs:170) |
| `HistoryReset` with `Universe <- IdleSession`, `FirstInstant = 2`, `LastInstant = 9` and `ResetOnlyShortens` as its property, MCWindowHistory | `ResetOnlyShortens` (persistence.rs:443) | a reset of a window that has expired moves its end later (persistence.rs:432) |
| `HistoryReset` with `FutureTolerance = 1`, `LastInstant = 4` and `OnlyNewUsageReturns` as its property, MCWindowHistory | `OnlyNewUsageReturns` (main.rs:180) | an observation from a little ahead of the clock is stored, then the window is reset; the next rebuild, which reads nothing new, finds it newer than the reset and makes the window current again (window_replay.rs:277-278) |
| `HistoryIdempotent`, MCWindowHistory | `RebuildIsIdempotent` (tests/persistence.rs:737) | the ends one rebuild stored are clamped again by the next (window_replay.rs:173) |
| `HistorySuperseded`, MCWindowHistory | `SupersededIgnored` (README.md:265-266) | an observation without a five-hour window makes the next comparison `Missing` (reset.rs:197), and a superseded five-hour epoch reported after it is metered |
| `TranscriptRewritten`, MCTranscriptIngest | `BatchStored` (ingest.rs:100-102) | the file is replaced between the continuity check (transcripts.rs:55) and the read: its lines are ignored at offsets the old file used |
| `ImportSlow`, MCTranscriptIngest | `BehindCursorStored` (tests/ingestion.rs:153) | an import reads the clock once (setup.rs:67); a line written more than five minutes after that, while it is still at work, is taken for one from the future and skipped for good |
| `RefreshStarved`, MCTranscriptIngest | `RefreshComplete` (README.md:60) | the newest transcript cannot be opened; `refresh` ends there (main.rs:447) and again the next time |
| `HooksMissing`, MCHookRuns | `MissingIsPassedOver` (hooks.rs:196-203) | the transcript does not exist yet; canonicalize fails before it is read (transcripts.rs:27), as an I/O error that hooks.rs does not pass over |
| `HooksUpgrade`, MCHookRuns | `OlderKeptOut` (README.md:234-237) | a process of the older release has opened the database; a newer one migrates it; the older one goes on with its transactions |
| `DisplayServer`, MCWindowDisplay | `ServerValueRecent` (display.rs:227-235) | the file was projected while the server's percentage was recent; later records bring none; `status` works out the status anew and keeps the percentage (display.rs:83) |
| `DisplayCached`, MCWindowDisplay | `CachedStatusHolds` (README.md:248-249) | `refresh` prints a file that is there as it was projected, "fresh" included (display.rs:17-32) |
| `ProfilesNewModel`, MCCalibrationProfiles | `NewModelInherits` (tests/compatibility.rs:22) | the inherited profile is stored under the generation of the check; observations of a transcript that names its version carry another (transcripts.rs:186-190) |
| `ProfilesSplitRead`, MCCalibrationProfiles | `ApprovalReachesSession` (main.rs:169) | a read that starts after the head of the transcript has no version and model, so its observations have another identity (ingest.rs:130) |
| `Profiles` with `ApprovalTakesEffect` for `ApprovalsStay`, MCCalibrationProfiles | `ApprovalTakesEffect` (main.rs:169) | `calibration apply` takes its instant, a check of another session commits an inherited profile with a newer one, and the approval is stored under that identity: printed as applied, it is never in force (calibration_state.rs:296-301) |
| `Drift` with `ReportsSpaced` for `FileOnRecord`, MCDriftAnalysis | `ReportsSpaced` (calibration_state.rs:152-163) | two hooks ask at once whether a report is due; both find none and write one each, of the different counts that they analysed |
| `DriftMoved`, MCDriftAnalysis | `RecommendedWasConfirmed` (calibration.rs:390-394) | confirmations are kept while the candidate moves without new windows; the moved value is recommended (calibration_state.rs:51) |
| `EngineSuperseded`, MCAccountingEngine | `OldEpochIgnored` (tests/accounting.rs:209) | expiry is tested before the weekly epoch: a late snapshot of an older epoch opens the next window (calculate.rs:97) |
| `FileEdited`, MCHooksFile | `OtherHandlersKept` (README.md:224) | a handler saved between the read and the rename is lost (hooks.rs:250) |

The report file may also stay behind the newest row, when a hook dies between
the two, until the next report is due: `FileOnRecord` says that it shows a report
that is on record, and not that it is the newest.

One more was met and is why `manner` keeps overlap and rewriting apart: two
overlapping readers can leave the cursor at 0 with the old generation, and a
file rewritten then is read in that generation, its lines ignored at offsets
that are taken.

## 5. What is proved

TLAPS proves the following for every value of the constants that satisfies the
modules' named assumptions, not only for the instances above.  The assumptions
say what the code or its tables guarantee: ids are keys (`StoreAssumption`;
`DriftAssumption`, migrations.rs:38); the value that stands for nothing is none of
those it is compared with (`DisplayAssumption`, `EngineAssumption`,
`HookAssumption`, `FileAssumption`,
`TranscriptAssumption`); the warnings that are due are the newest milestone of each
window (`HookAssumption`, from window_replay.rs:681).  TLC evaluates them in
every run.

**WindowStoreProofs.**  The inductive invariant `IInv` (in WindowStore) is
`TypeOK`, the four other invariants of the `store` run and `SoundTransaction`:
what holds in the middle of a replay, when rows are computed but not
written.  The
properties alone are not inductive: that no window meters more than the weekly
use follows only if every row of the unfinished replay already does and the
current row's deadline is that of some stored observation (`SoundReplay`); that
the current window ends in the newest metered observation, that `SoundReplay`
says so of the window being filled (`EndsInNewest`) and that nothing older is left
to replay.  The
lemmas go bottom up: `ClassifyType`, `BoundsType`, then what a new, a shortened
and a grown window is like (`NewWindowFacts`, `ShortenedFacts`,
`AccumulateFacts`), then `ReplaySound` (one observation keeps the replay
sound), then one lemma per action.  From `Invariant` follow `TypeCorrect`,
`OneCurrentWindowAlways`, `ResetsAlwaysHold`, `WindowsNeverInverted`,
`NeverOvermetered`, and the action property `CalibrationForwardOnly`.

**WindowDisplayProofs.**  `StatusAlwaysAgrees`: every step keeps that a settled
file holds what the tables said when some call projected it (`DisplayMatches`),
and reading the tables at a later instant differs from refreshing what was read
at an earlier one in nothing but the source of the percentage
(`RefreshedIsRead`).  `FreshAlwaysNewest`: what was metered is no newer
than the current window's latest usage, and in the middle of a replay it comes
before all that is left to do (`MeteredInv`, `Ordered`); a record that makes no
sense leaves a diagnostic that hides a window it is not older than
(`HidingIsSenseless`), so what is shown as fresh has none.
`StoreUsedAsSpecified`: the composition implements
WindowStore over the readings of its records, so the theorems about WindowStore
hold of what is displayed.

`IncrementalIsFull`: whatever order and batches the records come in and whatever
is rolled back, the table is what one replay of everything computes.  This is
not so of all records, since a rebuild keeps the end of a window that it finds
in the table and a replay of everything finds none (`HistoryIdempotent` in
section 4 is a history of that kind).  The theorem
supposes `Regular`: the local window is as long as the server's, the deadlines
the server gives are known and, up to the jitter, kept (`DeadlinesKept`), and
`profile` tells whether a value was approved.  TLC finds the records of the
configurations `Regular` (`RecordsRegular`).  Then an end is never anything but
its start and five hours, so that what a rebuild keeps is what it would
compute.  `Steady` says why, of a replay under way: the current window ends at
the deadline of an item alongside the last one metered.  It is kept
(`SteadyStep`) because the next item with a deadline either is of the same epoch,
and comes before the window's end, or splits the window at a boundary that lies
at or past this end and so does not shorten it (`NextDeadline`).  Backfilling keeps the
items orderly (`ItemsOrderly`): it gives a five-hour window to every record
before one that has it (`KnownAhead`), and none that disagrees with a neighbour.
That the replay of everything is determined at all is `ReplayExists` and
`ReplayUnique`, by way of least counterexamples among the finite subsets.

**HookRunsProofs.**  For any number of processes and releases and any
transcripts: `HookTypes`; `FeedRefinement`: every step of HookRuns is a step of
DisplayFeed or leaves its variables alone (`FeedStep`), which needs that a
process past its migration has a schema to work on (`Opened`);
`LagAlwaysExplained`, by way of which phases a kind of run can be in
(`RunShape`); `WarningsReportedOnce`, by way of `NewsOwned`: the warnings a run
took are in `emitted`, and no other run took them.  `CrossingsTaken`: what is
due is emitted, and every emission is some run's (`EmittedTaken`); a prompt hook
reads one transcript, so it commits once, takes at most one warning of each
window and shows the one of the newest (`PromptShape`).

**TranscriptIngestProofs.**  `IngestTypes` holds however Codex writes.  The other
three theorems are for any number of readers, files, lines and failures.  They
assume of the constants that every scenario is steady or quiet (`Orderly`), and
of a behaviour that each file is read before more lines than the tolerance were
written since its run began (`[]ReadsOnTime`; runs may last as long as they like
otherwise, and the whole history longer than the tolerance).  Without either
they fail, as the configurations `TranscriptTorn`, `TranscriptRewritten` and
`ImportSlow` show.

What is to be proved, `BehindCursorStored`, says nothing of the readers between
their steps; two inductive invariants do.  Where lines are only appended
(`IInv`), every saved cursor and every position a reader took lies between two
lines with everything before it stored (`Sound`), every row holds the line at its
offset (`RowsAgree`), and a batch that is to be committed holds what is missing
before the offset to be saved, while what lies behind that offset is newer than
the run (`Covers`).  Files and table only grow (`GrownStep`), which keeps these
facts for the readers that do not move (`HeldKept`), one that puts an older
cursor back included.  Where files are torn, truncated and started anew between
runs (`QInv`), what is stored may belong to a file that is gone.  The generation
in which the next reader will store (`Target`) is that of the cursor if its
marker fits the file, and a new one otherwise: a row of that generation holds
the line at its offset (`RowsPlaced`), because a marker fits after a write only
if it did before and the lines before the cursor are the same
(`FitsAsBefore`), since no line comes back under its name.  `OInv` joins the two.

`NothingSkipped` follows at once; `BatchesStored` since a row in the way of
another is of its generation and holds the same line (`CommitStores`,
`QuietCommitStores`); `ImportsComplete` with `PassedStored`: what an import has
passed by is stored.

**AccountingEngineProofs.**  `IInv` adds that the window's milestone is the one
emitted last (`LastEmitted`) and that its base was applied (`WindowTyped`), so
that a weekly epoch common to all applied snapshots is common to the base and
the next one.  `NeverMeteredTwice` and `EmissionsIncrease` hold for any
snapshots, batches and repetitions.  `EngineFollowsReplay` relates the two
programs that hold the same rule: step by step (`Together`), the engine's window
is the replay's, for any batch in which no deadline moves back.  The two compute
the milestone by different searches, of which `SearchesAgree` shows that they
find the same number.  The engine takes no five-hour window, so a snapshot with
none never splits the local one, and where nothing moves back the replay takes
none for an older epoch (`NothingSplits`).

**CalibrationProfilesProofs.**  `IInv` is `TypeOK`, `GenerationsBacked`,
`InheritedFirst` and `ReviewedOnce`.  `GenerationsBacked` is what the two
others need: the generation of a check is in force or held by a process only
once that check is on record, so a first check of an identity finds no profile
stored under it.  So a copied profile is only ever the first of its identity
(`InheritedFirst`, defined with the proofs), and no check takes the place of a
profile that was approved, whatever instants the two carry
(`ApprovalsAlwaysStay`).

**DriftAnalysisProofs.**  `IInv` relates the table, the rows that overlapping
processes hold and the trail of analyses committed so far: every stored and
every held row is the row of some earlier analysis (`RowsRecorded`,
`HeldRecorded`), which lets a stale read still be justified.  From it follow
`CandidatesConfirmed` and `ConfirmationsEarned`, for any number of processes.
`TypeCorrect` needs that a report exists of any evidence: that a weighted sum is
determined (`SumUnique`, `SumExists`), that some value has half of the weight on
each side (`MedianType`), and that the extremes of a finite group do
(`ExtremesExist`).  `FileAlwaysOnRecord` follows from what a
hook holds between its steps: the count of an analysis that was committed, and
after the row a report that is in the table.

**HooksFileProofs.**  For any processes, places, files and saves: `TypeCorrect`,
`SavesKept` and `OwnHandlerOnce`.  `IInv` says of what a process is about to
write that it keeps the handlers of others as they were saved last
(`WritesKeepOthers`) and runs one own handler for an event at most, so that a
file that runs more is what the user saved (`WritesOwnOne`).  The proofs rest on
what the model's passes over lists compute.  The library's induction theorems
cannot be used, so induction over numbers and sequences is proved from
well-foundedness (`NumberInduction`, `SequenceInduction`) for a *set* in place of a predicate,
and once for all passes: that a recursive function of a position exists, is the
only one, and takes one step per element (`PassExists`, `PassIs`, `PassLaws`).

**Only model-checked.**  Liveness (`RunsEnd`, `DisplayCatchesUp`,
`EverythingStored`), since the prover has neither fairness nor ENABLED.  Every
invariant and every action property that a passing run checks is the subject of
a theorem above.

## 6. What is not modelled

- **The SQL of the migrations**: `HookRuns` has a migration as one forward step;
  what each version does to the rows is text that only SQLite gives a meaning.
- **Database backup**: one call of SQLite's online backup, which only reads.
- **The release metadata cache** (compatibility.rs:95-169): a cached network
  answer that only words a message.
- **Private files, configuration and domain types**: permissions; constructors
  whose bounds are the assumptions on the constants.
- **Printing**: parsing of arguments, messages, support bundles, the
  confidence label and the spread of a calibration report.
- **Packaging, scripts, fuzzing**: shell.
- **The bytes of paths**: paths whose byte order differs from Rust's path order
  are a known hazard outside the models, which give observations one order.
- **Very long lines**: `read_bounded_record` drops a line beyond 1 MiB; the
  model does not tell it from other lines that do not parse.

## 7. Plan

Done: the store with its replay, the display composed with it, the runs of all
kinds on one state directory, the transcripts they read, and what the other
modules above cover.  What is left, in this order:

1. The session context (version, model) that each read builds, composed from
   TranscriptIngest and CalibrationProfiles, so that the identity of an
   observation comes from the reads themselves.
2. WindowStore and HookRuns together: the warnings due come from the replay, so
   that `CrossingTaken` speaks of real windows.
