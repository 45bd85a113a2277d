---------------------------- MODULE WindowReplay ----------------------------
(***************************************************************************)
(* One step of rebuild_windows (src/src/persistence/window_replay.rs).     *)
(* The tracker recomputes every local window from the stored observations, *)
(* oldest first.  A replay is the record                                   *)
(*   [closed, current, previous, events, metered, clash]                   *)
(* the windows already finished, the one being filled (None at first), the *)
(* last accepted observation (None at first), the reset events noted, the  *)
(* ids of the observations that affect the meter, and whether two windows  *)
(* were given the same start, which the primary key of the windows table   *)
(* refuses when the rows are written.                                      *)
(*                                                                         *)
(* Every replayed observation carries a weekly window: only a record with  *)
(* one becomes a snapshot, and load_replay_items fills it in.              *)
(***************************************************************************)
EXTENDS ResetClassifier, FiniteSets

CONSTANTS
  LocalWindow,  \* config.local_window_duration, five hours by default
  Thresholds,   \* config.warning_thresholds, percent of the calibration
  SuperStep     \* config.super_usage_step, percent

ASSUME ReplayAssumption ==
  /\ LocalWindow \in Nat \ {0}
  /\ Thresholds \subseteq Nat \ {0}
  /\ SuperStep \in Nat \ {0}

\* What load_replay_items yields: observations with a weekly window.
Snapshots == {o \in Observations : o.weekly # None}

Kinds == (Classes \ {"no_reset", "natural_weekly", "old_epoch"})
           \cup {"local_expiry", "server_epoch", "initial_observation"}

\* A row of the windows table.
WindowRows == [start : Int, end : Int, latest : Int, used : Nat,
               weeklyReset : Int \cup {None}, server : Int \cup {None},
               points : Nat,
               milestone : Nat \cup {None}, calibration : Nat \ {0},
               kind : Kinds, boundary : Int,
               lifecycle : {"current", "archived"}]

EmptyReplay == [closed   |-> {},
                current  |-> None,
                previous |-> None,
                events   |-> {},
                metered  |-> {},
                clash    |-> FALSE]

(***************************************************************************)
(* backfill_known_five_hour_epochs walks the observations from the newest  *)
(* and hands the five-hour window of each to the ones before it that lack  *)
(* one, stopping at the first that lies outside its epoch: an item takes   *)
(* the next known window when it and every item up to that one fit in it.  *)
(***************************************************************************)
FitsEpoch(time, window) ==
  /\ window.reset # None
  /\ time >= EpochStart(window) - Jitter
  /\ time <= window.reset + Jitter

NextKnown(item, items) ==
  {y \in items : /\ Before(item, y)
                 /\ y.five # None
                 /\ \A x \in items :
                      Before(item, x) /\ Before(x, y) =>
                        x.five = None /\ FitsEpoch(x.time, y.five)}

Backfilled(item, items) ==
  LET known == {y \in NextKnown(item, items) : FitsEpoch(item.time, y.five)}
  IN  IF item.five # None \/ known = {} THEN item
      ELSE [item EXCEPT !.five = (CHOOSE y \in known : TRUE).five]

ServerEpochBounds(item) ==
  IF /\ item.five # None
     /\ item.five.length = FiveHours
     /\ FitsEpoch(item.time, item.five)
  THEN [start |-> EpochStart(item.five), end |-> item.five.reset]
  ELSE None

\* newest_milestone: the highest threshold or step past 100% that points out
\* of calibration reach, where 100 points / calibration is the percentage.
Milestone(points, calibration) ==
  LET percent == (100 * points) \div calibration
      reached == {m \in Thresholds : m * calibration <= 100 * points}
                   \cup {100 + k * SuperStep :
                           k \in 1 .. ((percent - 100) \div SuperStep)}
      highest == {m \in reached : \A n \in reached : n <= m}
  IN  IF highest = {} THEN None ELSE CHOOSE m \in highest : TRUE

\* seed_after_five_hour_boundary: the growth seen across the boundary.
SeedAfterBoundary(previous, item) ==
  IF SameEpoch(previous.weekly.reset, item.weekly.reset)
  THEN Greatest(item.weekly.used - previous.weekly.used, 0)
  ELSE item.weekly.used

Decision(replay, item) ==
  IF replay.previous = None THEN [class |-> "no_reset", boundary |-> None]
  ELSE ClassifyReset(replay.previous, item)

FiveChanged(previous, item) ==
  /\ previous # None
  /\ previous.five # None
  /\ item.five # None
  /\ ~SameEpoch(previous.five.reset, item.five.reset)

ServerSplit(replay, item) ==
  /\ FiveChanged(replay.previous, item)
  /\ Decision(replay, item).class
       \in {"natural_five_hour", "inferred_full", "ambiguous"}

LocalExpiry(replay, item) ==
  /\ replay.current # None
  /\ ~ServerSplit(replay, item)
  /\ item.time >= replay.current.end

\* persist_reset_event, called for every class but no_reset.
EventsWith(replay, item) ==
  LET decision == Decision(replay, item)
  IN  IF decision.class = "no_reset" THEN replay.events
      ELSE replay.events \cup {[id       |-> item.id,
                                class    |-> decision.class,
                                boundary |-> decision.boundary]}

\* A server boundary closes the old window early, never late.
Shortened(window, boundary) ==
  IF boundary = None THEN window
  ELSE [window EXCEPT !.end = Least(Greatest(boundary, window.start), @)]

(***************************************************************************)
(* new_replay_window.  A window that already exists in the table, found by *)
(* its start, keeps the end and the calibration it has there: that is how  *)
(* a manual reset and an applied calibration outlive the rebuild.          *)
(***************************************************************************)
Bounds(item, kind) ==
  IF kind = "local_expiry" \/ ServerEpochBounds(item) = None
  THEN [start |-> item.time, end |-> item.time + LocalWindow]
  ELSE ServerEpochBounds(item)

\* Faulty variant: the calibration of an existing window is looked up afresh.
NewWindowForgetsCalibration(item, kind, boundary, points, preserved, profile) ==
  LET bounds == Bounds(item, kind)
      kept   == {w \in preserved : w.start = bounds.start}
  IN  [start       |-> bounds.start,
       end         |-> IF kept = {} THEN bounds.end
                       ELSE (CHOOSE w \in kept : TRUE).end,
       latest      |-> item.time,
       used        |-> item.weekly.used,
       weeklyReset |-> item.weekly.reset,
       server      |-> IF item.five = None THEN None ELSE item.time,
       points      |-> points,
       milestone   |-> Milestone(points, profile),
       calibration |-> profile,
       kind        |-> kind,
       boundary    |-> boundary,
       lifecycle   |-> "archived"]

NewWindow(item, kind, boundary, points, preserved, profile) ==
  LET bounds == Bounds(item, kind)
      kept   == {w \in preserved : w.start = bounds.start}
      old    == CHOOSE w \in kept : TRUE
      calibration == IF kept = {} THEN profile ELSE old.calibration
  IN  [start       |-> bounds.start,
       end         |-> IF kept = {} THEN bounds.end ELSE old.end,
       latest      |-> item.time,
       used        |-> item.weekly.used,
       weeklyReset |-> item.weekly.reset,
       server      |-> IF item.five = None THEN None ELSE item.time,
       points      |-> points,
       milestone   |-> Milestone(points, calibration),
       calibration |-> calibration,
       kind        |-> kind,
       boundary    |-> boundary,
       lifecycle   |-> "archived"]

OpenWindow(replay, item, preserved, profile) ==
  LET decision == Decision(replay, item)
      split    == ServerSplit(replay, item)
      kind     == IF split THEN decision.class
                  ELSE IF LocalExpiry(replay, item) THEN "local_expiry"
                  ELSE IF item.five # None THEN "server_epoch"
                  ELSE "initial_observation"
      boundary == IF split /\ decision.boundary # None THEN decision.boundary
                  ELSE IF ServerEpochBounds(item) # None
                       THEN ServerEpochBounds(item).start
                  ELSE item.time
      closed   == IF replay.current = None THEN replay.closed
                  ELSE replay.closed \cup
                         {IF split
                          THEN Shortened(replay.current, decision.boundary)
                          ELSE replay.current}
      window   == NewWindow(item, kind, boundary,
                    IF split THEN SeedAfterBoundary(replay.previous, item) ELSE 0,
                    preserved, profile)
  IN  [closed   |-> closed,
       current  |-> window,
       previous |-> item,
       events   |-> EventsWith(replay, item),
       metered  |-> replay.metered \cup {item.id},
       clash    |-> \/ replay.clash
                    \/ \E w \in closed : w.start = window.start]

Accumulate(replay, item, delta) ==
  LET points == replay.current.points + delta
      server == IF item.five = None THEN replay.current.server ELSE item.time
  IN  [replay EXCEPT
        !.current  = [@ EXCEPT !.latest      = item.time,
                               !.used        = item.weekly.used,
                               !.weeklyReset = item.weekly.reset,
                               !.server      = server,
                               !.points      = points,
                               !.milestone   = Milestone(points, replay.current.calibration)],
        !.previous = item,
        !.events   = EventsWith(replay, item),
        !.metered  = @ \cup {item.id}]

\* The item is noted and otherwise ignored: it is not the next previous.
Ignore(replay, item) == [replay EXCEPT !.events = EventsWith(replay, item)]

ReplayItem(replay, item, preserved, profile) ==
  IF Decision(replay, item).class = "old_epoch" THEN Ignore(replay, item)
  ELSE IF \/ replay.current = None
          \/ ServerSplit(replay, item)
          \/ LocalExpiry(replay, item)
       THEN OpenWindow(replay, item, preserved, profile)
  ELSE LET delta == WeeklyDelta(replay.current.used, replay.current.weeklyReset,
                                item.weekly.used, item.weekly.reset)
       IN  IF delta = None THEN Ignore(replay, item)
           ELSE Accumulate(replay, item, delta)
=============================================================================
