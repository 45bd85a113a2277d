----------------------------- MODULE WindowStore -----------------------------
(***************************************************************************)
(* The state database of src/src/persistence.rs: the committed tables and  *)
(* the one write transaction that may be open.  SQLite's IMMEDIATE         *)
(* transactions exclude one another, so a single tx variable holds the     *)
(* work of whichever process is writing; nothing of it is visible before   *)
(* commit and a crash or an error discards it.                             *)
(*                                                                         *)
(* StateStore::ingest and ingest_transcript both insert their observations *)
(* (INSERT OR IGNORE by id) and rebuild every window; the rebuild is       *)
(* replayed here one observation a step.                                   *)
(***************************************************************************)
EXTENDS WindowReplay

CONSTANTS
  Universe,         \* the observations transcripts may hold, with distinct ids
  Calibrations,     \* the values a user may approve, weekly points
  InitCalibration,  \* the value in force before any approval
  FutureTolerance,  \* IngestOptions.future_tolerance
  LockWait,         \* BUSY_TIMEOUT: how old a caller's now may be by the time
                    \* it is granted the write lock
  FirstInstant,     \* bound: the clock runs from FirstInstant to LastInstant
  LastInstant,
  MaxBatch          \* bound: observations one call can bring

ASSUME StoreAssumption ==
  /\ Universe \subseteq Snapshots
  /\ \A o, p \in Universe : o.id = p.id => o = p
  /\ Calibrations \subseteq Nat \ {0}
  /\ InitCalibration \in Nat \ {0}
  /\ FutureTolerance \in Nat
  /\ LockWait \in Nat
  /\ FirstInstant \in Int
  /\ LastInstant \in Int
  /\ MaxBatch \in Nat

VARIABLES
  clock,    \* Utc::now()
  stored,   \* snapshots joined with their observations
  windows,  \* the windows table
  events,   \* reset_events
  metered,  \* ids of the snapshots with affects_meter = 1
  warned,   \* emitted_warnings, pairs <<window start, milestone>>
  resets,   \* control_events: the instants of the manual resets
  profile,  \* the calibration the newest approved profile gives
  tx        \* the open transaction, or None

vars == <<clock, stored, windows, events, metered, warned, resets, profile, tx>>
tables == <<stored, windows, events, metered, warned, resets, profile>>

CurrentRows(rows) == {w \in rows : w.lifecycle = "current"}

Init ==
  /\ clock = FirstInstant
  /\ stored = {}
  /\ windows = {}
  /\ events = {}
  /\ metered = {}
  /\ warned = {}
  /\ resets = {}
  /\ profile = InitCalibration
  /\ tx = None

Tick ==
  /\ clock < LastInstant
  /\ clock' = clock + 1
  /\ UNCHANGED <<tables, tx>>

\* Faulty variant: only the batch is replayed, as if it came last.
BeginIngestReplaysBatch(batch) ==
  /\ tx = None
  /\ \A o \in batch : o.time <= clock + FutureTolerance
  /\ tx' = [stored |-> stored \cup batch,
            todo   |-> {Backfilled(o, batch) : o \in batch},
            replay |-> EmptyReplay]
  /\ UNCHANGED <<clock, tables>>

\* BEGIN IMMEDIATE, insert the batch, load and backfill what is to be replayed.
BeginIngest(batch) ==
  LET all == stored \cup batch
  IN  /\ tx = None
      /\ \A o \in batch : o.time <= clock + FutureTolerance
      /\ tx' = [stored |-> all,
                todo   |-> {Backfilled(o, all) : o \in all},
                replay |-> EmptyReplay]
      /\ UNCHANGED <<clock, tables>>

\* Faulty variant: the observations are replayed as they were stored.
ReplayNextUnsorted ==
  /\ tx # None
  /\ \E item \in tx.todo :
       tx' = [tx EXCEPT !.todo   = @ \ {item},
                        !.replay = ReplayItem(@, item, windows, profile)]
  /\ UNCHANGED <<clock, tables>>

ReplayNext ==
  /\ tx # None
  /\ \E item \in tx.todo :
       /\ \A other \in tx.todo : item = other \/ Before(item, other)
       /\ tx' = [tx EXCEPT !.todo   = @ \ {item},
                           !.replay = ReplayItem(@, item, windows, profile)]
  /\ UNCHANGED <<clock, tables>>

Replayed == tx # None /\ tx.todo = {}

\* Faulty variants: no look at the manual resets; every window left current.
FinalRowsIgnoresResets(replay) ==
  IF replay.current = None THEN {}
  ELSE replay.closed \cup {[replay.current EXCEPT !.lifecycle = "current"]}

FinalRowsAllCurrent(replay) ==
  IF replay.current = None THEN {}
  ELSE {[w EXCEPT !.lifecycle =
           IF \A r \in resets : w.latest > r THEN "current" ELSE "archived"] :
          w \in replay.closed \cup {replay.current}}

\* The last window is current unless the newest manual reset came after all of it.
FinalRows(replay) ==
  LET last == IF \A r \in resets : replay.current.latest > r
              THEN [replay.current EXCEPT !.lifecycle = "current"]
              ELSE replay.current
  IN  IF replay.current = None THEN {} ELSE replay.closed \cup {last}

WarningsOf(rows) == {<<w.start, w.milestone>> : w \in {v \in rows : v.milestone # None}}

CommitIngest ==
  /\ Replayed
  /\ ~tx.replay.clash
  /\ stored'  = tx.stored
  /\ windows' = FinalRows(tx.replay)
  /\ events'  = tx.replay.events
  /\ metered' = tx.replay.metered
  /\ warned'  = warned \cup WarningsOf(FinalRows(tx.replay))
  /\ tx' = None
  /\ UNCHANGED <<clock, resets, profile>>

\* windows.started_at is a PRIMARY KEY: the second insert fails, all rolls back.
AbortIngest ==
  /\ Replayed
  /\ tx.replay.clash
  /\ tx' = None
  /\ UNCHANGED <<clock, tables>>

\* The process dies, or a later statement of the transaction fails.
CrashInTransaction ==
  /\ tx # None
  /\ tx' = None
  /\ UNCHANGED <<clock, tables>>

\* Faulty variant: the window ends now even when it starts later.
ManualResetEndsNow(now) ==
  /\ tx = None
  /\ \E w \in CurrentRows(windows) :
       windows' = (windows \ {w}) \cup
                    {[w EXCEPT !.end = now, !.lifecycle = "archived"]}
  /\ resets' = resets \cup {now}
  /\ UNCHANGED <<clock, stored, events, metered, warned, profile, tx>>

\* reset_current_window: now was read before the transaction began.
ManualReset(now) ==
  /\ tx = None
  /\ \E w \in CurrentRows(windows) :
       windows' = (windows \ {w}) \cup
                    {[w EXCEPT !.end = Greatest(now, w.start),
                               !.lifecycle = "archived"]}
  /\ resets' = resets \cup {now}
  /\ UNCHANGED <<clock, stored, events, metered, warned, profile, tx>>

\* apply_calibration: a new newest profile; no window is touched.
ApplyCalibration(value) ==
  /\ tx = None
  /\ profile' = value
  /\ UNCHANGED <<clock, stored, windows, events, metered, warned, resets, tx>>

Batches == {b \in SUBSET Universe : Cardinality(b) <= MaxBatch}

Next ==
  \/ Tick
  \/ \E batch \in Batches : BeginIngest(batch)
  \/ ReplayNext
  \/ CommitIngest
  \/ AbortIngest
  \/ CrashInTransaction
  \/ \E now \in clock - LockWait .. clock : ManualReset(now)
  \/ \E value \in Calibrations : ApplyCalibration(value)

Spec == Init /\ [][Next]_vars
-----------------------------------------------------------------------------
ResetEvents == [id : Int, class : Classes \ {"no_reset"},
                boundary : Int \cup {None}]

Replays == [closed   : SUBSET WindowRows,
            current  : WindowRows \cup {None},
            previous : Snapshots \cup {None},
            events   : SUBSET ResetEvents,
            metered  : SUBSET Int,
            clash    : BOOLEAN]

\* Every variable has the type of its table.
TypeOK ==
  /\ clock \in Int
  /\ stored \subseteq Universe
  /\ windows \subseteq WindowRows
  /\ events \subseteq ResetEvents
  /\ metered \subseteq Int
  /\ warned \subseteq Int \X Nat
  /\ resets \subseteq Int
  /\ profile \in Nat \ {0}
  /\ \/ tx = None
     \/ tx \in [stored : SUBSET Universe,
                todo   : SUBSET Snapshots,
                replay : Replays]
-----------------------------------------------------------------------------
\* At most one window is current, and no two windows share a start, whatever
\* mixture of ingests, manual resets, crashes and applied calibrations ran.
\* The partial index one_current_window and the primary key of the table
\* would otherwise refuse a write.
OneCurrentWindow ==
  /\ \A w, v \in windows : w.start = v.start => w = v
  /\ \A w, v \in CurrentRows(windows) : w = v

\* What is shown as current always rests on usage that is stored: it ends in
\* the newest metered observation, at that observation's percentage, and that
\* observation is later than every manual reset.  So a reset leaves no current
\* window behind, through any rebuilds, crashes and late sessions, until an
\* observation later than the instant it recorded is in the store.
EndsIn(w, o) ==
  /\ o.id \in metered
  /\ o.time = w.latest
  /\ o.weekly.used = w.used
  /\ \A p \in stored : p.id \in metered => p.time <= o.time

ResetsHold ==
  \A w \in CurrentRows(windows) :
    \E o \in stored : EndsIn(w, o) /\ \A r \in resets : r < o.time

\* No window ends before it starts, though a manual reset and a server
\* boundary both move ends and later rebuilds keep what they wrote.
WindowsNotInverted ==
  \A w \in windows : w.start <= w.end

\* While the server advertises one weekly deadline, no window can meter more
\* points than the weekly percentage it last saw, however its opening seed,
\* ignored regressions and increments combine.
OneDeadline(items) ==
  \A o, p \in items : /\ o.weekly.reset # None
                      /\ WithinJitter(o.weekly.reset, p.weekly.reset)

MeteredWithinWeeklyUse ==
  OneDeadline(stored) => \A w \in windows : w.points <= w.used

\* An approved calibration reaches future windows only: a window that stays in
\* the table keeps the calibration it was opened with, across every rebuild.
CalibrationKept ==
  \A w \in windows, v \in windows' :
    w.start = v.start => w.calibration = v.calibration

CalibrationAppliesForward == [][CalibrationKept]_vars
-----------------------------------------------------------------------------
(* The inductive invariant behind the properties above: what holds of the   *)
(* rows a replay has produced, given the table it keeps ends and            *)
(* calibrations from and the observations it replays.                       *)

RowsOf(replay) ==
  IF replay.current = None THEN replay.closed
  ELSE replay.closed \cup {replay.current}

SoundRow(w, preserved) ==
  /\ w.lifecycle = "archived"
  /\ w.start <= w.end
  /\ \A v \in preserved : v.start = w.start => v.calibration = w.calibration

DistinctStarts(replay) ==
  /\ \A w, v \in replay.closed : w.start = v.start => w = v
  /\ replay.current # None =>
       \A w \in replay.closed : w.start # replay.current.start

\* The window being filled ends in the newest observation that was metered.
EndsInNewest(replay, items) ==
  /\ replay.current # None => replay.metered # {}
  /\ replay.metered # {} =>
       /\ \E o \in items : /\ o.id \in replay.metered
                           /\ o.time = replay.current.latest
                           /\ o.weekly.used = replay.current.used
       /\ \A o \in items : o.id \in replay.metered =>
                             o.time <= replay.current.latest

SoundReplay(replay, preserved, items) ==
  /\ replay \in Replays
  /\ \A w \in RowsOf(replay) : SoundRow(w, preserved)
  /\ ~replay.clash => DistinctStarts(replay)
  /\ replay.current # None =>
       \E o \in items : replay.current.weeklyReset = o.weekly.reset
  /\ EndsInNewest(replay, items)
  /\ OneDeadline(items) => \A w \in RowsOf(replay) : w.points <= w.used

\* Backfilling touches nothing but the five-hour window of what is left to
\* replay, and what is left is no older than what was replayed.
ReadingOf(item, o) ==
  item.id = o.id /\ item.time = o.time /\ item.weekly = o.weekly

SoundTransaction ==
  /\ SoundReplay(tx.replay, windows, tx.stored)
  /\ \A i \in tx.todo :
       /\ \E o \in tx.stored : ReadingOf(i, o)
       /\ tx.replay.metered # {} => tx.replay.current.latest <= i.time

IInv ==
  /\ TypeOK
  /\ OneCurrentWindow
  /\ ResetsHold
  /\ WindowsNotInverted
  /\ MeteredWithinWeeklyUse
  /\ tx # None => SoundTransaction
=============================================================================
