---------------------------- MODULE WindowDisplay ----------------------------
(***************************************************************************)
(* What display.json says of the windows table, and what `status` makes of *)
(* it later (src/src/persistence/display.rs), composed with the store of   *)
(* WindowStore.  A call reads records, stores and replays them, and        *)
(* projects the current window in a later transaction, with the clock it   *)
(* read at its start; the projection may be given up, and the file lost.   *)
(*                                                                         *)
(* The confidence of the calibration is left out: a row whose identity is  *)
(* unsupported is shown as unknown.                                        *)
(***************************************************************************)
EXTENDS UsageRecord, FiniteSets

CONSTANTS
  LocalWindow, Thresholds, SuperStep, Calibrations, InitCalibration,
  LockWait, FirstInstant, LastInstant, MaxBatch,  \* see WindowStore
  Records,     \* the records transcripts may hold, with distinct ids
  StaleAfter,  \* config.stale_after
  MaxOwed      \* bound: calls that have committed and are still to project

ASSUME DisplayAssumption ==
  /\ None \notin Observations \cup [start : Int, end : Int]
  /\ Records \subseteq UsageRecords
  /\ \A r, s \in Records : r.id = s.id => r = s
  /\ StaleAfter \in Nat
  /\ MaxOwed \in Nat
  /\ MaxBatch \in Nat

VARIABLES
  clock, stored, windows, events, metered, warned, resets, profile, tx,
  call,     \* [now, records] of the open transaction, or None
  seen,     \* the records that committed calls accepted: observations and
            \* diagnostic_events with an instant
  display,  \* what display.json holds; None: missing, or not readable
  owed,     \* the clocks of the calls still to project what they committed
  missed    \* was a projection given up since the last one?

Store == INSTANCE WindowHistory WITH Universe <- Readings(Records)

table  == <<stored, windows, events, metered, warned, resets, profile>>
shown  == <<display, owed, missed>>
vars   == <<clock, table, tx, call, seen, shown>>

Unknown == [status |-> "unknown", source |-> None, window |-> None]

Init ==
  /\ Store!Init
  /\ call = None
  /\ seen = {}
  /\ display = None
  /\ owed = {}
  /\ missed = FALSE

Tick == Store!Tick /\ UNCHANGED <<call, seen, shown>>

\* ingest_transcript: a record from beyond the tolerance is not stored.
BeginCall(batch, now) ==
  LET accepted == {r \in batch : Timely(r, now)}
  IN  /\ Cardinality(owed) < MaxOwed
      /\ Store!BeginIngest(Readings(accepted))
      /\ call' = [now |-> now, records |-> accepted]
      /\ UNCHANGED <<seen, shown>>

ReplayNext == Store!ReplayNext /\ UNCHANGED <<call, seen, shown>>

Commit ==
  /\ Store!CommitIngest
  /\ seen' = seen \cup call.records
  /\ owed' = owed \cup {call.now}
  /\ call' = None
  /\ UNCHANGED <<display, missed>>

Rollback ==
  /\ Store!AbortIngest \/ Store!CrashInTransaction
  /\ call' = None
  /\ UNCHANGED <<seen, shown>>

\* Faulty variant: `reset` leaves the display file alone.
ResetOnly(now) ==
  /\ Store!ManualReset(now)
  /\ UNCHANGED <<call, seen, shown>>

Reset(now) ==
  /\ Cardinality(owed) < MaxOwed
  /\ Store!ManualReset(now)
  /\ owed' = owed \cup {now}
  /\ UNCHANGED <<call, seen, display, missed>>

\* apply_calibration does not project: no window that is there changes.
ApplyCalibration(value) ==
  /\ Store!ApplyCalibration(value)
  /\ UNCHANGED <<call, seen, shown>>
-----------------------------------------------------------------------------
Freshness(window, now) ==
  IF now >= window.end \/ now - window.latest > StaleAfter THEN "stale" ELSE "fresh"

\* The server's own percentage, while it is recent; the estimate otherwise.
Source(window, now) ==
  IF window.server # None /\ now - window.server <= StaleAfter
  THEN "server" ELSE "local"

HidingCodes == {"unsupported_rate_limits_type", "unsupported_window_shape",
                "unsupported_window_duration", "missing_rate_limits",
                "missing_weekly_window"}

\* Faulty variant: only what came after the newest usage counts.
HiddenByLater(window, records) ==
  \E r \in records : /\ Diagnostics(r, r.time) \cap HidingCodes # {}
                     /\ r.time > window.latest

\* Is the newest such diagnostic at least as new as the usage of the window?
Hidden(window, records) ==
  \E r \in records : /\ Diagnostics(r, r.time) \cap HidingCodes # {}
                     /\ r.time >= window.latest

\* read_display: what the tables say at now.
ReadDisplay(rows, records, now) ==
  LET readable == {w \in Store!CurrentRows(rows) : ~Hidden(w, records)}
      window   == CHOOSE w \in readable : TRUE
  IN  IF readable = {} THEN Unknown
      ELSE [status |-> Freshness(window, now),
            source |-> Source(window, now),
            window |-> window]

\* regenerate_display, by a call that committed.
Project(now) ==
  /\ tx = None
  /\ now \in owed
  /\ display' = ReadDisplay(windows, seen, now)
  /\ owed' = owed \ {now}
  /\ missed' = FALSE
  /\ UNCHANGED <<clock, table, tx, call, seen>>

\* The call dies, or cannot lock the database or replace the file.
GiveUp(now) ==
  /\ now \in owed
  /\ owed' = owed \ {now}
  /\ missed' = TRUE
  /\ UNCHANGED <<clock, table, tx, call, seen, display>>

\* The file is deleted, damaged, or written by another version.
LoseDisplay ==
  /\ display # None
  /\ display' = None
  /\ UNCHANGED <<clock, table, tx, call, seen, owed, missed>>

\* load_or_recover_display: only a file that cannot be used is projected anew.
Recover(now) ==
  /\ tx = None
  /\ display = None
  /\ display' = ReadDisplay(windows, seen, now)
  /\ missed' = FALSE
  /\ UNCHANGED <<clock, table, tx, call, seen, owed>>

Now == clock - LockWait .. clock
Batches == {b \in SUBSET Records : IsFiniteSet(b) /\ Cardinality(b) <= MaxBatch}

Next ==
  \/ Tick
  \/ \E batch \in Batches, now \in Now : BeginCall(batch, now)
  \/ ReplayNext
  \/ Commit
  \/ Rollback
  \/ \E now \in Now : Reset(now) \/ Recover(now)
  \/ \E value \in Calibrations : ApplyCalibration(value)
  \/ \E now \in owed : Project(now) \/ GiveUp(now)
  \/ LoseDisplay

Spec == Init /\ [][Next]_vars
-----------------------------------------------------------------------------
\* Faulty variant: the end of the window is left out.
RefreshedByAge(cached, now) ==
  IF cached.status = "unknown" THEN cached
  ELSE [cached EXCEPT !.status = IF now - cached.window.latest > StaleAfter
                                 THEN "stale" ELSE "fresh"]

\* refresh_freshness: the status anew, all else as it was projected.
Refreshed(cached, now) ==
  IF cached.status = "unknown" THEN cached
  ELSE [cached EXCEPT !.status = Freshness(cached.window, now)]

\* load_display_read_only: what `status` prints at now, without the database.
StatusAt(now) == IF display = None THEN Unknown ELSE Refreshed(display, now)

Settled == owed = {} /\ ~missed /\ display # None

\* Once every call has projected what it committed, `status` says at any later
\* time of the cached file what the database itself would say: the window it
\* shows is the current one, and fresh, stale or unknown in its place.  (Which
\* value is shown is not part of this: see ServerValueRecent.)
StatusAgrees ==
  Settled =>
    /\ StatusAt(clock).status = ReadDisplay(windows, seen, clock).status
    /\ StatusAt(clock).window = ReadDisplay(windows, seen, clock).window

\* README.md:248: "fresh" means recent usage data was found.  No record that
\* was read from after what is shown as fresh, or from the same instant, is one
\* that could not be made sense of, and none from after it was metered: a
\* reading that the replay ignores, lower than what was metered before it, is
\* not the newest usage.
Sensible(record) ==
  /\ record.limits = "object"
  /\ \A slot \in {record.primary, record.secondary} :
       slot # None => slot.length \in {FiveHours, Week}
  /\ \E slot \in {record.primary, record.secondary} :
       slot # None /\ slot.length = Week

FreshIsNewest ==
  Settled /\ StatusAt(clock).status = "fresh" =>
    \A r \in seen :
      r.time >= StatusAt(clock).window.latest =>
        /\ Sensible(r)
        /\ r.time = StatusAt(clock).window.latest \/ r.id \notin metered

\* What is stored, replayed, reset and rolled back here is what WindowStore
\* says: its invariants hold of the windows that are shown.
StoreImplemented == Store!Spec

\* tests/persistence.rs:371, of the store this display is taken from.
IncrementalEqualsFull == Store!IncrementalEqualsFull

\* It is proved where the following holds of the records and the settings.
InEpoch(time, five) == Store!EpochStart(five) <= time /\ time < five.reset

Earlier(five, later) == five.reset <= Store!EpochStart(later)

\* The deadlines the server gives are known and kept: beside a record that
\* gives one, any other record was read in the same epoch, or is of an epoch
\* that was over when this one began, or was read after this one was over.
DeadlinesKept ==
  \A o, p \in Readings(Records) : p.five # None =>
    /\ p.five.reset # None
    /\ \/ /\ InEpoch(o.time, p.five)
          /\ o.five # None => WithinJitter(o.five.reset, p.five.reset)
       \/ o.five # None /\ o.five.reset # None /\ Earlier(o.five, p.five)
       \/ /\ o.time >= p.five.reset
          /\ o.five # None => o.five.reset # None /\ Earlier(p.five, o.five)

\* A local window as long as the server's, as it is by default, and deadlines
\* kept.  A value other than the first in force tells that one was approved.
Regular ==
  /\ LocalWindow = FiveHours
  /\ Jitter < FiveHours
  /\ InitCalibration \notin Calibrations
  /\ DeadlinesKept

\* display.rs:227: a server percentage older than StaleAfter gives way to the
\* local estimate.
ServerValueRecent ==
  Settled /\ StatusAt(clock).source = "server" /\ StatusAt(clock).status = "fresh"
    => clock - StatusAt(clock).window.server <= StaleAfter

\* README.md:249: "stale" means the newest data is old.  `refresh` and `doctor`
\* print the status as it was projected.
CachedStatusHolds ==
  Settled => display.status = StatusAt(clock).status
=============================================================================
